---- MODULE Spec2Model ----
(***************************************************************************)
(* Model of the pyETA gaze pipeline:                                       *)
(*   - OneEuroFilter and the fixation classifier of Tracker                *)
(*     (components/utils.py, components/track.py),                         *)
(*   - Tracker.start_tracking / stop_tracking and TrackerThread,           *)
(*   - StreamThread and GazeReader (components/reader.py).                 *)
(*   - get_statistics of the validation (components/validate.py),          *)
(*   - the LSL outlet sample of Tracker._collect_gaze_data and the         *)
(*     construction of Tracker and Tobii,                                  *)
(*   - the OneEuroFilter of tests/test_oneeurofilter.py,                   *)
(*   - ValidationWindow and its tracker thread (components/window.py).     *)
(*                                                                         *)
(* Floats are fixed-point integers: a normalised coordinate 1.0 is VS,     *)
(* one second is TS clock ticks, velocities and derivatives are in         *)
(* coordinate units per second.  NaN is the sentinel NaN; every operator   *)
(* that Python would evaluate on a NaN propagates it.                      *)
(***************************************************************************)
EXTENDS Integers, Sequences, FiniteSets, TLC

\* ------------------------------------------------------------------ bounds
MaxCallbacks == 3      \* gaze callbacks delivered to one Tracker

\* -------------------------------------------------------- number encoding
VS == 1000             \* fixed-point scale of a coordinate / cutoff
TS == 1000             \* clock ticks per second (milliseconds)
NaN == 0 - 999999999   \* float('nan')
PI_NUM == 355          \* math.pi ~ 355/113
PI_DEN == 113

IsNaN(v) == v = NaN

Abs(v) == IF v < 0 THEN 0 - v ELSE v

\* n / d rounded to the nearest integer (d > 0): float division
Div(n, d) == (n + d \div 2) \div d

Min2(a, b) == IF a <= b THEN a ELSE b

RECURSIVE SqrtSearch(_, _, _)
SqrtSearch(n, lo, hi) ==
    IF lo >= hi THEN lo
    ELSE LET mid == (lo + hi + 1) \div 2
         IN IF mid * mid <= n THEN SqrtSearch(n, mid, hi)
                              ELSE SqrtSearch(n, lo, mid - 1)

\* np.sqrt on a non-negative fixed-point number (floor)
Sqrt(n) == SqrtSearch(n, 0, Min2(n, 46340))

\* ------------------------------------------------------- OneEuroFilter
min_cutoff == 4        \* 0.004, scaled by VS
beta_num == 7          \* beta = 0.7
beta_den == 10
derivative_cutoff == 1000   \* 1.0, scaled by VS

\* OneEuroFilter.__init__
NewFilter(initial_time) ==
    [previous_value |-> 0, previous_derivative |-> 0, previous_time |-> initial_time]

\* smoothing_factor: alpha = r / (r + 1) with r = 2*pi*cutoff*dt, as a
\* fixed-point number scaled by VS (r / (r + 1) computed as 1 - 1 / (r + 1))
smoothing_factor(time_elapsed, cutoff_frequency) ==
    LET r == Div(2 * PI_NUM * Div(cutoff_frequency * time_elapsed, TS), PI_DEN)
    IN VS - Div(VS * VS, r + VS)

\* mutant: the previous value is returned
exp_smoothing_KeepPrevious(alpha, current_value, previous_value) == previous_value

\* mutant: the current value is returned unsmoothed
exp_smoothing_PassThrough(alpha, current_value, previous_value) == current_value

\* exp_smoothing: alpha*current + (1 - alpha)*previous; each product is
\* rounded before the sum, as each float operation is
exp_smoothing(alpha, current_value, previous_value) ==
    Div(alpha * current_value, VS) + Div((VS - alpha) * previous_value, VS)

\* OneEuroFilter.__call__ of a filter with parameters p (min_cutoff, beta):
\* [raised, value, state]; a zero elapsed time raises ZeroDivisionError
\* before any field is written
OneEuroCall(f, current_time, current_value, p) ==
    LET time_elapsed == current_time - f.previous_time
    IN IF time_elapsed = 0
       THEN [raised |-> TRUE, value |-> NaN, state |-> f]
       ELSE IF IsNaN(current_value) \/ IsNaN(f.previous_value) \/ IsNaN(f.previous_derivative)
       THEN [raised |-> FALSE, value |-> NaN,
             state |-> [previous_value |-> NaN, previous_derivative |-> NaN,
                        previous_time |-> current_time]]
       ELSE LET alpha_derivative == smoothing_factor(time_elapsed, derivative_cutoff)
                current_derivative == Div((current_value - f.previous_value) * TS, time_elapsed)
                filtered_derivative ==
                    exp_smoothing(alpha_derivative, current_derivative, f.previous_derivative)
                adaptive_cutoff ==
                    p.min_cutoff + Div(p.beta_num * Abs(filtered_derivative), p.beta_den)
                alpha == smoothing_factor(time_elapsed, adaptive_cutoff)
                filtered_value == exp_smoothing(alpha, current_value, f.previous_value)
            IN [raised |-> FALSE, value |-> filtered_value,
                state |-> [previous_value |-> filtered_value,
                           previous_derivative |-> filtered_derivative,
                           previous_time |-> current_time]]

\* the parameters Tracker.create_filter gives its filters
TrackerParams ==
    [min_cutoff |-> min_cutoff, beta_num |-> beta_num, beta_den |-> beta_den]

\* a call of one of the Tracker's filters
FilterCall(f, current_time, current_value) ==
    OneEuroCall(f, current_time, current_value, TrackerParams)

\* ------------------------------------------------------------ Tracker
Eyes == {"left_eye", "right_eye"}
Channels == {"left_eye_x", "left_eye_y", "right_eye_x", "right_eye_y"}


\* FixationTuple()
FixationTuple ==
    [is_fixated |-> FALSE, velocity |-> 0, x |-> NaN, y |-> NaN,
     filtered_x |-> NaN, filtered_y |-> NaN, timestamp |-> NaN,
     elapsed_time |-> 0, duration |-> 0]

\* mutant: a strict comparison
IsFixated_Strict(velocity, threshold) == ~IsNaN(velocity) /\ velocity < threshold

\* Python's  velocity <= self.velocity_threshold  (False on NaN)
IsFixated(velocity, threshold) == ~IsNaN(velocity) /\ velocity <= threshold

\* the fixation-onset field:  t if not is_fixated else self.timestamp
FixationTimestamp(is_fixated, t, old) == IF ~is_fixated THEN t ELSE old

\* mutant: the duration is overwritten instead of accumulated
FixationDuration_NoSum(is_fixated, old, elapsed_time) ==
    IF is_fixated THEN elapsed_time ELSE 0

\* mutant: the duration is kept on a saccade
FixationDuration_NoReset(is_fixated, old, elapsed_time) ==
    IF is_fixated THEN old + elapsed_time ELSE old

\* the duration field:  duration + elapsed_time if is_fixated else 0
FixationDuration(is_fixated, old, elapsed_time) ==
    IF is_fixated THEN old + elapsed_time ELSE 0

\* mutant: the distance is a signed difference instead of a norm
calculate_SignedDistance(previous_t, t, x, y, filtered_x, filtered_y, threshold) ==
    LET distance == IF IsNaN(x) \/ IsNaN(y) \/ IsNaN(filtered_x) \/ IsNaN(filtered_y)
                    THEN NaN
                    ELSE (filtered_x - x) + (filtered_y - y)
        elapsed_time == t - previous_t
        velocity == IF IsNaN(distance) THEN NaN ELSE Div(distance * TS, elapsed_time)
    IN <<IsFixated(velocity, threshold), velocity, elapsed_time>>

\* _update_fixation_data.calculate: <<is_fixated, velocity, elapsed_time>>
calculate(previous_t, t, x, y, filtered_x, filtered_y, threshold) ==
    LET distance == IF IsNaN(x) \/ IsNaN(y) \/ IsNaN(filtered_x) \/ IsNaN(filtered_y)
                    THEN NaN
                    ELSE Sqrt((filtered_x - x) * (filtered_x - x)
                              + (filtered_y - y) * (filtered_y - y))
        elapsed_time == t - previous_t
        velocity == IF IsNaN(distance) THEN NaN ELSE Div(distance * TS, elapsed_time)
    IN <<IsFixated(velocity, threshold), velocity, elapsed_time>>

\* Tracker._update_fixation_data for one eye: fx, fy are the eye's two
\* filters, old its FixationTuple.  [raised, fx, fy, fixation]
update_fixation_data(fx, fy, old, t, x, y, threshold) ==
    LET previous_t == Min2(fx.previous_time, fy.previous_time)
        rx == FilterCall(fx, t, x)
        ry == FilterCall(fy, t, y)
    IN IF rx.raised
       THEN [raised |-> TRUE, fx |-> fx, fy |-> fy, fixation |-> old]
       ELSE IF ry.raised
       THEN [raised |-> TRUE, fx |-> rx.state, fy |-> fy, fixation |-> old]
       ELSE LET c == calculate(previous_t, t, x, y, rx.value, ry.value, threshold)
            IN [raised |-> FALSE, fx |-> rx.state, fy |-> ry.state,
                fixation |->
                   [is_fixated |-> c[1], velocity |-> c[2], x |-> x, y |-> y,
                    filtered_x |-> rx.value, filtered_y |-> ry.value,
                    timestamp |-> FixationTimestamp(c[1], t, old.timestamp),
                    elapsed_time |-> c[3],
                    duration |-> FixationDuration(c[1], old.duration, c[3])]]

\* ------------------------------------------------- Tracker: the session
None == 0 - 1          \* Python's None where a number is expected

MaxTime == 4000        \* the host clock stops advancing here

\* gaze_data dictionaries handed to the callback: a gaze point is <<x, y>>,
\* <<NaN, NaN>> for an eye that was not detected, <<>> when the key is missing
GazeSamples ==
    { [left |-> <<0, 0>>,     right |-> <<0, 0>>],
      [left |-> <<500, 500>>, right |-> <<500, 500>>],
      [left |-> <<0, 0>>,     right |-> <<NaN, NaN>>],
      [left |-> <<500, 500>>, right |-> <<>>] }

\* time between two gaze callbacks, in clock ticks
Elapsed == {0, 2, 1000}

\* velocity_threshold values of a session (0.0 and the default 0.5)
Thresholds == {0, 500}

\* duration argument of start_tracking, in ticks (None: open-ended)
Durations == {None, 2000}

VARIABLES
    now,                \* host clock, datetime.now()
    one_euro_filter,    \* Tracker.__one_euro_filter: channel -> filter state
    fixation,           \* Tracker.__fixation_left / __fixation_right
    config,             \* fixation, velocity_threshold, save_data, duration
    gaze_data,          \* Tracker.gaze_data
    callbacks,          \* the eye tracker holds the subscribed handler
    trackPc,            \* position of start_tracking
    end_time,           \* start_tracking's end_time
    saved,              \* the files written by start_tracking
    stopCalled,         \* TrackerThread.stop() has been called
    cbCount,            \* callbacks delivered so far
    cbRaised,           \* exceptions that escaped _collect_gaze_data
    lastCb,             \* what the last callback did, per eye: "updated",
                        \* "raised" (IndexError), "zero_elapsed" (ZeroDivisionError)
    runElapsed          \* per eye: elapsed times of the current fixated run

VARIABLES
    component,          \* which object this behaviour exercises
    s_running,          \* StreamThread.running
    s_pc,               \* position of StreamThread.run
    s_sample,           \* the sample pulled by the current iteration
    s_time,             \* current_time of the current iteration
    gaze_times,         \* StreamThread.gaze_times
    gaze_x,             \* StreamThread.gaze_x
    gaze_y,             \* StreamThread.gaze_y
    s_fixation_data,    \* StreamThread.fixation_data: key -> cluster
    last_cleanup,       \* StreamThread.last_cleanup
    s_emitted,          \* the lists last emitted on update_gaze_signal
    s_stopPc,           \* position of StreamThread.stop in the GUI thread
    s_hist              \* history of the StreamThread session

streamVars == <<s_running, s_pc, s_sample, s_time, gaze_times, gaze_x, gaze_y,
                s_fixation_data, last_cleanup, s_emitted, s_stopPc, s_hist>>

VARIABLES
    r_running,          \* GazeReader.running
    r_pc,               \* position of GazeReader.read_stream
    r_cur,              \* locals of the current iteration of read_stream
    heap,               \* the list objects of GazeReader: id -> content
    r_buffers,          \* GazeReader.buffer_times / buffer_x / buffer_y: ids
    r_fixation_data,    \* GazeReader.fixation_data: key -> cluster
    r_hist              \* history of the GazeReader session

readerVars == <<r_running, r_pc, r_cur, heap, r_buffers, r_fixation_data, r_hist>>

VARIABLES
    v_pc,               \* position in get_statistics
    v_gaze_file,        \* the gaze file given to get_statistics
    v_validate_file,    \* the validation file given to get_statistics
    v_gaze,             \* df_gaze_data: rows
    v_validate,         \* df_validate_data: rows
    v_groups,           \* df_groups: rows
    v_result,           \* the table returned
    v_error             \* the exception that left get_statistics, or "none"

valVars == <<v_pc, v_gaze_file, v_validate_file, v_gaze, v_validate, v_groups,
             v_result, v_error>>

VARIABLES
    o_pc,               \* position of the Tracker under construction / in use
    o_args,             \* the constructor's arguments and what the host offers
    o_outlet,           \* n_channels of lsl_gaze_outlet, None when there is none
    o_subscribed,       \* the handler is subscribed to the eye tracker
    o_filter,           \* the tracker's filters, per channel
    o_fixation,         \* the tracker's fixation state, per eye
    o_in,               \* the gaze_data of the last callback
    o_pushed,           \* the last stream_data handed to push_sample
    o_count             \* callbacks delivered

outVars == <<o_pc, o_args, o_outlet, o_subscribed, o_filter, o_fixation, o_in,
             o_pushed, o_count>>

VARIABLES
    f_mode,             \* which input the filter under test is fed
    f_params,           \* its min_cutoff and beta
    f_filter,           \* its state
    f_raw,              \* the first sample (or the constant) and the inputs fed
    f_out               \* the initial value and the outputs returned

filtVars == <<f_mode, f_params, f_filter, f_raw, f_out>>

VARIABLES
    w_pc,               \* position of the ValidationWindow's sequence
    w_timer,            \* when its pending QTimer / animation ends
    w_positions,        \* how many circle_positions are left
    w_collected,        \* the timestamps of collected_data
    w_track,            \* position of the TrackerThread
    w_wake,             \* when the tracker thread runs next
    w_end_time,         \* start_tracking's end_time
    w_span              \* when the handler was subscribed and unsubscribed

winVars == <<w_pc, w_timer, w_positions, w_collected, w_track, w_wake,
             w_end_time, w_span>>

auxVars == <<outVars, filtVars, winVars>>

trackerVars == <<one_euro_filter, fixation, config, gaze_data, callbacks,
                 trackPc, end_time, saved, stopCalled, cbCount, cbRaised, lastCb,
                 runElapsed>>

\* Tracker.create_filter: one filter per channel, each stamped with the
\* clock at its creation (the clock may or may not tick in between)
CreationTimes ==
    { ct \in [Channels -> 0..1] :
        /\ ct["left_eye_x"] <= ct["left_eye_y"]
        /\ ct["left_eye_y"] <= ct["right_eye_x"]
        /\ ct["right_eye_x"] <= ct["right_eye_y"] }

create_filter(ct) == [c \in Channels |-> NewFilter(ct[c])]

NoCb == [e \in Eyes |-> "none"]

InitTracker ==
    /\ \E ct \in CreationTimes :
          /\ one_euro_filter = create_filter(ct)
          /\ now = ct["right_eye_y"]
    /\ fixation = [e \in Eyes |-> FixationTuple]
    /\ config \in [fixation : BOOLEAN, velocity_threshold : Thresholds,
                   save_data : {TRUE}, duration : Durations]
    /\ gaze_data = <<>>
    /\ callbacks = FALSE
    /\ trackPc = "constructed"
    /\ end_time = None
    /\ saved = <<>>
    /\ stopCalled = FALSE
    /\ cbCount = 0
    /\ cbRaised = 0
    /\ lastCb = NoCb
    /\ runElapsed = [e \in Eyes |-> <<>>]

\* the record _collect_gaze_data builds for one eye
EyeData(point, f) ==
    [gaze_point |-> point, fixated |-> f.is_fixated, velocity |-> f.velocity,
     fixation_timestamp |-> f.timestamp, fixation_elapsed |-> f.duration]

\* history: the elapsed times of the run of samples with velocity <= threshold
\* an eye is in
RunAfter(run, f, thr) ==
    IF ~IsNaN(f.velocity) /\ f.velocity <= thr THEN Append(run, f.elapsed_time) ELSE <<>>

\* Tracker._collect_gaze_data(gaze_data) called at clock value t
CollectGazeData(t, g) ==
    LET thr == config.velocity_threshold
        lOk == Len(g.left) >= 2
        rOk == Len(g.right) >= 2
        uL == update_fixation_data(one_euro_filter["left_eye_x"], one_euro_filter["left_eye_y"],
                                   fixation["left_eye"], t, g.left[1], g.left[2], thr)
        uR == update_fixation_data(one_euro_filter["right_eye_x"], one_euro_filter["right_eye_y"],
                                   fixation["right_eye"], t, g.right[1], g.right[2], thr)
        afterL == [one_euro_filter EXCEPT !["left_eye_x"] = uL.fx, !["left_eye_y"] = uL.fy]
        afterR == [afterL EXCEPT !["right_eye_x"] = uR.fx, !["right_eye_y"] = uR.fy]
        Raise(flt, fixn, cb) ==
            /\ one_euro_filter' = flt
            /\ fixation' = fixn
            /\ lastCb' = cb
            /\ cbRaised' = cbRaised + 1
            /\ UNCHANGED <<gaze_data, runElapsed>>
        Log(fixn) ==
            /\ gaze_data' =
                  IF config.save_data
                  THEN Append(gaze_data,
                              [timestamp |-> t,
                               left_eye |-> EyeData(g.left, fixn["left_eye"]),
                               right_eye |-> EyeData(g.right, fixn["right_eye"])])
                  ELSE gaze_data
            /\ cbRaised' = cbRaised
    IN IF ~config.fixation
       THEN /\ Log(fixation)
            /\ lastCb' = NoCb
            /\ UNCHANGED <<one_euro_filter, fixation, runElapsed>>
       ELSE IF ~lOk
       THEN Raise(one_euro_filter, fixation, [e \in Eyes |-> "raised"])
       ELSE IF uL.raised
       THEN Raise(afterL, fixation, [e \in Eyes |-> "zero_elapsed"])
       ELSE LET fixL == [fixation EXCEPT !["left_eye"] = uL.fixation]
                runL == [runElapsed EXCEPT
                            !["left_eye"] = RunAfter(@, uL.fixation, thr)]
            IN IF ~rOk \/ uR.raised
               THEN /\ one_euro_filter' = IF rOk THEN afterR ELSE afterL
                    /\ fixation' = fixL
                    /\ lastCb' = [left_eye |-> "updated",
                                   right_eye |-> IF rOk THEN "zero_elapsed" ELSE "raised"]
                    /\ cbRaised' = cbRaised + 1
                    /\ runElapsed' = runL
                    /\ UNCHANGED gaze_data
               ELSE LET fixR == [fixL EXCEPT !["right_eye"] = uR.fixation]
                    IN /\ one_euro_filter' = afterR
                       /\ fixation' = fixR
                       /\ lastCb' = [e \in Eyes |-> "updated"]
                       /\ runElapsed' = [runL EXCEPT
                                           !["right_eye"] = RunAfter(@, uR.fixation, thr)]
                       /\ Log(fixR)

\* the eye tracker delivers one gaze sample to the subscribed handler
Deliver(samples, elapsed) ==
    /\ component = "tracker"
    /\ UNCHANGED <<component, streamVars, readerVars, valVars, auxVars>>
    /\ callbacks
    /\ cbCount < MaxCallbacks
    /\ \E dt \in elapsed, g \in samples :
          /\ now + dt <= MaxTime
          /\ now' = now + dt
          /\ CollectGazeData(now + dt, g)
    /\ cbCount' = cbCount + 1
    /\ UNCHANGED <<config, callbacks, trackPc, end_time, saved, stopCalled>>

GazeCallback == Deliver(GazeSamples, Elapsed)

\* Tracker.stop_tracking: unsubscribe the handler; any error is swallowed
stop_tracking(subscribed) == FALSE

\* start_tracking up to the loop: compute end_time, subscribe the handler
TrackStart ==
    /\ component = "tracker"
    /\ UNCHANGED <<component, streamVars, readerVars, valVars, auxVars>>
    /\ trackPc = "constructed"
    /\ end_time' = IF config.duration # None THEN now + config.duration ELSE None
    /\ callbacks' = TRUE
    /\ trackPc' = "check"
    /\ UNCHANGED <<now, one_euro_filter, fixation, config, gaze_data, saved,
                   stopCalled, cbCount, cbRaised, lastCb, runElapsed>>

\* the exit test of start_tracking's loop
LoopExit(endt, clock) == endt # None /\ clock >= endt

\* one test of the loop: on expiry stop_tracking() and break, else sleep
TrackCheck ==
    /\ component = "tracker"
    /\ UNCHANGED <<component, streamVars, readerVars, valVars, auxVars>>
    /\ trackPc = "check"
    /\ IF LoopExit(end_time, now)
       THEN /\ callbacks' = stop_tracking(callbacks)
            /\ trackPc' = "finally"
       ELSE /\ trackPc' = "sleep"
            /\ UNCHANGED callbacks
    /\ UNCHANGED <<now, one_euro_filter, fixation, config, gaze_data, end_time,
                   saved, stopCalled, cbCount, cbRaised, lastCb, runElapsed>>

\* time.sleep(1): a second passes on the host clock
TrackSleep ==
    /\ component = "tracker"
    /\ UNCHANGED <<component, streamVars, readerVars, valVars, auxVars>>
    /\ trackPc = "sleep"
    /\ now' = Min2(now + TS, MaxTime)
    /\ trackPc' = "check"
    /\ UNCHANGED <<one_euro_filter, fixation, config, gaze_data, callbacks,
                   end_time, saved, stopCalled, cbCount, cbRaised, lastCb, runElapsed>>

\* the finally block of start_tracking: write the log when save_data
TrackFinally ==
    /\ component = "tracker"
    /\ UNCHANGED <<component, streamVars, readerVars, valVars, auxVars>>
    /\ trackPc = "finally"
    /\ saved' = IF config.save_data THEN Append(saved, gaze_data) ELSE saved
    /\ trackPc' = "returned"
    /\ UNCHANGED <<now, one_euro_filter, fixation, config, gaze_data, callbacks,
                   end_time, stopCalled, cbCount, cbRaised, lastCb, runElapsed>>

\* TrackerThread.run after start_tracking returned: emit, finally self.stop()
ThreadRunFinally ==
    /\ component = "tracker"
    /\ UNCHANGED <<component, streamVars, readerVars, valVars, auxVars>>
    /\ trackPc = "returned"
    /\ callbacks' = stop_tracking(callbacks)
    /\ trackPc' = "finished"
    /\ UNCHANGED <<now, one_euro_filter, fixation, config, gaze_data, end_time,
                   saved, stopCalled, cbCount, cbRaised, lastCb, runElapsed>>

\* TrackerThread.stop() called from the GUI thread
ThreadStop ==
    /\ component = "tracker"
    /\ UNCHANGED <<component, streamVars, readerVars, valVars, auxVars>>
    /\ stopCalled' = TRUE
    /\ callbacks' = stop_tracking(callbacks)
    /\ UNCHANGED <<now, one_euro_filter, fixation, config, gaze_data, trackPc,
                   end_time, saved, cbCount, cbRaised, lastCb, runElapsed>>

\* ------------------------------------------------------ Python helpers
\* bool(v) of a float: 0.0 is falsy, every other value (NaN too) is truthy
Truthy(v) == v # 0

\* sample[i] exists (Python indexing, negative indices from the end)
InRange(q, i) == IF i >= 0 THEN i < Len(q) ELSE 0 - i <= Len(q)

At(q, i) == IF i >= 0 THEN q[i + 1] ELSE q[Len(q) + i + 1]

\*  q[i] if q[i] else q[j]  and  q[i] or q[j] : [ok, v], not ok on IndexError
OrElse(q, i, j) ==
    IF ~InRange(q, i) THEN [ok |-> FALSE, v |-> 0]
    ELSE IF Truthy(At(q, i)) THEN [ok |-> TRUE, v |-> At(q, i)]
    ELSE IF ~InRange(q, j) THEN [ok |-> FALSE, v |-> 0]
    ELSE [ok |-> TRUE, v |-> At(q, j)]

\* int(v * dim) : [ok, v], not ok on the ValueError int(nan) raises
ToPixel(v, dim) ==
    IF IsNaN(v) \/ IsNaN(dim) THEN [ok |-> FALSE, v |-> 0]
    ELSE [ok |-> TRUE, v |-> (v * dim) \div VS]

\* the gaze pixel of a sample: [ok, x, y]
GazePixel(q) ==
    IF ~InRange(q, 0 - 4) \/ ~InRange(q, 0 - 3) THEN [ok |-> FALSE, x |-> 0, y |-> 0]
    ELSE LET fx == OrElse(q, 7, 16)
             fy == OrElse(q, 8, 17)
             px == ToPixel(fx.v, At(q, 0 - 4))
             py == ToPixel(fy.v, At(q, 0 - 3))
         IN IF ~fx.ok \/ ~px.ok \/ ~fy.ok \/ ~py.ok
            THEN [ok |-> FALSE, x |-> 0, y |-> 0]
            ELSE [ok |-> TRUE, x |-> px.v, y |-> py.v]

\* ------------------------------------------------------- stream samples
\* the 22 channels Tracker pushes: per eye gaze x, y, pupil, fixated,
\* velocity, fixation timestamp, fixation duration, filtered x, y; then the
\* screen width and height, the host timestamp and the LSL clock
Channel(fixated, ts, fx, fy) == <<fx, fy, 5000, fixated, 0, ts, 0, fx, fy>>

Sample22(left, right) == left \o right \o <<1920, 1080, 1000, 1000>>

StreamSamples ==
    { Sample22(Channel(1, 1000, 500, 500), Channel(1, 1000, 500, 500)),
      Sample22(Channel(0, 2000, 0, 250), Channel(1, 1000, 250, 250)),
      Sample22(Channel(0, 3000, 750, 750), Channel(0, 3000, 750, 750)),
      Sample22(Channel(1, NaN, 100, 100), Channel(1, NaN, 100, 100)),
      Sample22(Channel(0, 4000, NaN, NaN), Channel(0, 4000, NaN, NaN)),
      <<900, 900, 5000, 0, 0, 5000, 0, 900, 900, 1920, 1080, 1000>> }

NoSample == <<>>       \* pull_sample(timeout=0.0) found nothing: None

\* --------------------------------------------------------- StreamThread
FIXATION_HISTORY_LIMIT == 2     \* 100 in the source, scaled down
DATA_CLEANUP_INTERVAL == 10000
BUFFER_SIZE == 2                \* 100 in the source, scaled down

MaxSamples == 3        \* samples pulled by StreamThread.run
MaxReaderSamples == 2  \* samples pulled by GazeReader.read_stream
MaxStreamTime == 10000 \* the host clock of a stream session stops here
StreamElapsed == {0, 10000}     \* time between two iterations of run()

\* defaultdict(lambda: {'count': 0, 'x': 0, 'y': 0})
NewCluster == [count |-> 0, x |-> 0, y |-> 0]

\* order of the keys str(fixation_time) under sorted(): "nan" follows digits
KeyLess(a, b) == IF IsNaN(a) THEN FALSE ELSE IF IsNaN(b) THEN TRUE ELSE a < b

\* StreamThread.cleanup_old_fixations
cleanup_old_fixations(fd) ==
    IF Cardinality(DOMAIN fd) > FIXATION_HISTORY_LIMIT
    THEN LET keep == { k \in DOMAIN fd :
                         Cardinality({ j \in DOMAIN fd : KeyLess(k, j) })
                            < FIXATION_HISTORY_LIMIT }
         IN [k \in keep |-> fd[k]]
    ELSE fd

\* fixation_data[key]['count'] += 1; ['x'] = gaze_x; ['y'] = gaze_y
FoldCluster(fd, key, x, y) ==
    LET old == IF key \in DOMAIN fd THEN fd[key] ELSE NewCluster
    IN [k \in DOMAIN fd \cup {key} |->
           IF k = key THEN [count |-> old.count + 1, x |-> x, y |-> y] ELSE fd[k]]

\* mutant: the oldest entries are kept
KeepLast_First(buf, n) == IF Len(buf) > n THEN SubSeq(buf, 1, n) ELSE buf

\* buf[-n:] applied when the buffer grew beyond n
KeepLast(buf, n) == IF Len(buf) > n THEN SubSeq(buf, Len(buf) - n + 1, Len(buf)) ELSE buf

\* mutant: the loop ignores the flag
LoopContinue_Always(running) == TRUE

\* while self.running:
LoopContinue(running) == running

NoEmit == <<>>

InitStream ==
    /\ s_running = FALSE
    /\ s_pc = "idle"
    /\ s_sample = NoSample
    /\ s_time = 0
    /\ gaze_times = <<>>
    /\ gaze_x = <<>>
    /\ gaze_y = <<>>
    /\ s_fixation_data = <<>>
    /\ last_cleanup = 0
    /\ s_emitted = NoEmit
    /\ s_stopPc = "idle"
    /\ s_hist = [pulled |-> 0, ingested |-> <<>>, errors |-> 0, observedStop |-> FALSE,
                 stopped |-> FALSE, returnedAt |-> "none", prev |-> NoSample]

\* QThread.start()
StreamStart ==
    /\ component = "stream"
    /\ s_pc = "idle"
    /\ s_pc' = "starting"
    /\ UNCHANGED <<component, now, trackerVars, readerVars, valVars, auxVars, s_running, s_sample, s_time,
                   gaze_times, gaze_x, gaze_y, s_fixation_data, last_cleanup,
                   s_emitted, s_stopPc, s_hist>>

\* run(): self.running = True
StreamRunBegin ==
    /\ component = "stream"
    /\ s_pc = "starting"
    /\ s_running' = TRUE
    /\ s_pc' = "test"
    /\ UNCHANGED <<component, now, trackerVars, readerVars, valVars, auxVars, s_sample, s_time,
                   gaze_times, gaze_x, gaze_y, s_fixation_data, last_cleanup,
                   s_emitted, s_stopPc, s_hist>>

\* the loop test of run()
StreamTest ==
    /\ component = "stream"
    /\ s_pc = "test"
    /\ s_pc' = IF LoopContinue(s_running) THEN "pull" ELSE "exited"
    /\ s_hist' = [s_hist EXCEPT !.observedStop = @ \/ ~s_running]
    /\ UNCHANGED <<component, now, trackerVars, readerVars, valVars, auxVars, s_running, s_sample, s_time,
                   gaze_times, gaze_x, gaze_y, s_fixation_data, last_cleanup,
                   s_emitted, s_stopPc>>

\* pull_sample, current_time and the periodic cleanup; the clock has advanced
\* by some time since the last iteration
StreamPull ==
    /\ component = "stream"
    /\ s_pc = "pull"
    /\ \E smp \in StreamSamples \cup {NoSample} :
          /\ smp # NoSample => s_hist.pulled < MaxSamples
          /\ s_sample' = smp
          /\ s_pc' = IF smp = NoSample THEN "test" ELSE "process"
          /\ s_hist' = [s_hist EXCEPT !.pulled = IF smp = NoSample THEN @ ELSE @ + 1]
    /\ \E dt \in StreamElapsed :
          /\ now + dt <= MaxStreamTime
          /\ now' = now + dt
    /\ s_time' = now'
    /\ IF now' - last_cleanup >= DATA_CLEANUP_INTERVAL
       THEN /\ s_fixation_data' = cleanup_old_fixations(s_fixation_data)
            /\ last_cleanup' = now'
       ELSE UNCHANGED <<s_fixation_data, last_cleanup>>
    /\ UNCHANGED <<component, trackerVars, readerVars, valVars, auxVars, s_running,
                   gaze_times, gaze_x, gaze_y, s_emitted, s_stopPc>>

\* the body of  if sample is not None:  an exception anywhere in it is caught
\* by the loop's except clause, which logs it
StreamProcess ==
    /\ component = "stream"
    /\ s_pc = "process"
    /\ s_pc' = "test"
    /\ LET g == GazePixel(s_sample)
           times == KeepLast(Append(gaze_times, s_time), BUFFER_SIZE)
           xs == KeepLast(Append(gaze_x, g.x), BUFFER_SIZE)
           ys == KeepLast(Append(gaze_y, g.y), BUFFER_SIZE)
           ft == OrElse(s_sample, 5, 14)
           isf == OrElse(s_sample, 3, 12)
       IN IF ~g.ok
          THEN /\ s_hist' = [s_hist EXCEPT !.errors = @ + 1]
               /\ UNCHANGED <<gaze_times, gaze_x, gaze_y, s_emitted, s_fixation_data>>
          ELSE /\ gaze_times' = times
               /\ gaze_x' = xs
               /\ gaze_y' = ys
               /\ s_emitted' = <<times, xs, ys>>
               /\ IF ~ft.ok \/ ~isf.ok
                  THEN /\ s_hist' = [s_hist EXCEPT
                                        !.errors = @ + 1,
                                        !.ingested = Append(@, <<s_time, g.x, g.y>>)]
                       /\ UNCHANGED s_fixation_data
                  ELSE /\ s_hist' = [s_hist EXCEPT
                                        !.ingested = Append(@, <<s_time, g.x, g.y>>),
                                        !.prev = s_sample]
                       /\ s_fixation_data' =
                             IF Truthy(isf.v) /\ Truthy(ft.v)
                             THEN FoldCluster(s_fixation_data, ft.v, g.x, g.y)
                             ELSE s_fixation_data
    /\ s_sample' = NoSample
    /\ UNCHANGED <<component, now, trackerVars, readerVars, valVars, auxVars, s_running, s_time,
                   last_cleanup, s_stopPc>>

\* StreamThread.stop() up to its wait(): clear the flag, close the inlet,
\* clear the buffers
StreamStop ==
    /\ component = "stream"
    /\ s_stopPc = "idle"
    /\ s_running' = FALSE
    /\ s_fixation_data' = <<>>
    /\ gaze_times' = <<>>
    /\ gaze_x' = <<>>
    /\ gaze_y' = <<>>
    /\ s_stopPc' = "wait"
    /\ s_hist' = [s_hist EXCEPT !.stopped = TRUE]
    /\ UNCHANGED <<component, now, trackerVars, readerVars, valVars, auxVars, s_pc, s_sample, s_time,
                   last_cleanup, s_emitted>>

\* what a caller sees of a StreamThread
StreamState == [running |-> s_running, pc |-> s_pc, gaze_times |-> gaze_times,
                gaze_x |-> gaze_x, gaze_y |-> gaze_y, fixation_data |-> s_fixation_data]

\* wait() returns once run() has ended (at once when it never started)
StreamStopReturn ==
    /\ component = "stream"
    /\ s_stopPc = "wait"
    /\ s_pc \in {"idle", "exited"}
    /\ s_stopPc' = "idle"
    /\ s_hist' = [s_hist EXCEPT !.returnedAt = s_pc]
    /\ UNCHANGED <<component, now, trackerVars, readerVars, valVars, auxVars, s_running, s_pc, s_sample,
                   s_time, gaze_times, gaze_x, gaze_y, s_fixation_data, last_cleanup,
                   s_emitted>>

\* ------------------------------------------------------------ GazeReader
MaxConsumerCalls == 1  \* get_data and clear_data calls of the consumer

ReaderSamples ==
    { Sample22(Channel(1, 1000, 500, 500), Channel(1, 1000, 500, 500)),
      Sample22(Channel(0, 3000, 750, 750), Channel(0, 3000, 750, 750)),
      Sample22(Channel(1, NaN, 100, 100), Channel(1, NaN, 100, 100)),
      <<900, 900, 5000, 0, 0, 5000, 0, 900, 900, 1920, 1080, 1000>> }

\* defaultdict(lambda: {'count': 0, 'x': 0, 'y': 0, 'timestamp': None})
NewReaderCluster == [count |-> 0, x |-> 0, y |-> 0, timestamp |-> None]

NoLocals == [sample |-> NoSample, time |-> 0, x |-> 0, y |-> 0, ref |-> 0]

InitReader ==
    /\ r_running = TRUE
    /\ r_pc = "idle"
    /\ r_cur = NoLocals
    /\ heap = << <<>>, <<>>, <<>> >>
    /\ r_buffers = [times |-> 1, x |-> 2, y |-> 3]
    /\ r_fixation_data = <<>>
    /\ r_hist = [pulled |-> 0, calls |-> 0, stopped |-> FALSE, handed |-> {},
                 points |-> <<>>, observedStop |-> FALSE, ingested |-> 0]

\* read_stream(inlet) is entered
ReaderBegin ==
    /\ component = "reader"
    /\ r_pc = "idle"
    /\ r_pc' = "test"
    /\ UNCHANGED <<component, now, trackerVars, streamVars, valVars, auxVars, r_running, r_cur, heap,
                   r_buffers, r_fixation_data, r_hist>>

\* while self.running and inlet:
ReaderTest ==
    /\ component = "reader"
    /\ r_pc = "test"
    /\ r_pc' = IF LoopContinue(r_running) THEN "pull" ELSE "exited"
    /\ r_hist' = [r_hist EXCEPT !.observedStop = @ \/ ~r_running]
    /\ UNCHANGED <<component, now, trackerVars, streamVars, valVars, auxVars, r_running, r_cur, heap,
                   r_buffers, r_fixation_data>>

\* pull_sample, current_time, gaze_x, gaze_y; nothing catches an exception
\* raised here: it ends read_stream
ReaderPull ==
    /\ component = "reader"
    /\ r_pc = "pull"
    /\ \E smp \in ReaderSamples \cup {NoSample} :
          /\ smp # NoSample => r_hist.pulled < MaxReaderSamples
          /\ r_hist' = [r_hist EXCEPT !.pulled = IF smp = NoSample THEN @ ELSE @ + 1]
          /\ IF smp = NoSample
             THEN r_pc' = "test" /\ UNCHANGED r_cur
             ELSE LET g == GazePixel(smp)
                  IN IF ~InRange(smp, 0 - 2) \/ IsNaN(At(smp, 0 - 2)) \/ ~g.ok
                     THEN r_pc' = "raised" /\ UNCHANGED r_cur
                     ELSE /\ r_pc' = "load_times"
                          /\ r_cur' = [sample |-> smp, time |-> At(smp, 0 - 2),
                                       x |-> g.x, y |-> g.y, ref |-> 0]
    /\ UNCHANGED <<component, now, trackerVars, streamVars, valVars, auxVars, r_running, heap,
                   r_buffers, r_fixation_data>>

\* self.buffer_X.append(v), first half: the attribute is read
ReaderLoad ==
    /\ component = "reader"
    /\ r_pc \in {"load_times", "load_x", "load_y"}
    /\ r_cur' = [r_cur EXCEPT !.ref = CASE r_pc = "load_times" -> r_buffers.times
                                        [] r_pc = "load_x" -> r_buffers.x
                                        [] OTHER -> r_buffers.y]
    /\ r_pc' = CASE r_pc = "load_times" -> "append_times"
                 [] r_pc = "load_x" -> "append_x"
                 [] OTHER -> "append_y"
    /\ UNCHANGED <<component, now, trackerVars, streamVars, valVars, auxVars, r_running, heap,
                   r_buffers, r_fixation_data, r_hist>>

\* self.buffer_X.append(v), second half: append to the list that was read
ReaderAppend ==
    /\ component = "reader"
    /\ r_pc \in {"append_times", "append_x", "append_y"}
    /\ heap' = [heap EXCEPT ![r_cur.ref] =
                   Append(@, CASE r_pc = "append_times" -> r_cur.time
                               [] r_pc = "append_x" -> r_cur.x
                               [] OTHER -> r_cur.y)]
    /\ r_pc' = CASE r_pc = "append_times" -> "load_x"
                 [] r_pc = "append_x" -> "load_y"
                 [] OTHER -> "fixation"
    /\ r_hist' = [r_hist EXCEPT !.ingested = @ + 1]
    /\ UNCHANGED <<component, now, trackerVars, streamVars, valVars, auxVars, r_running, r_cur,
                   r_buffers, r_fixation_data>>

\* the fixation part of read_stream's body
ReaderFixation ==
    /\ component = "reader"
    /\ r_pc = "fixation"
    /\ LET isf == OrElse(r_cur.sample, 3, 12)
           ft == OrElse(r_cur.sample, 5, 14)
           old == IF ft.v \in DOMAIN r_fixation_data
                  THEN r_fixation_data[ft.v] ELSE NewReaderCluster
           folded(ts) == [k \in DOMAIN r_fixation_data \cup {ft.v} |->
                             IF k = ft.v
                             THEN [count |-> old.count + 1, x |-> r_cur.x,
                                   y |-> r_cur.y, timestamp |-> ts]
                             ELSE r_fixation_data[k]]
       IN IF ~isf.ok
          THEN r_pc' = "raised" /\ UNCHANGED r_fixation_data
          ELSE IF ~Truthy(isf.v)
          THEN r_pc' = "test" /\ UNCHANGED r_fixation_data
          ELSE IF ~ft.ok
          THEN r_pc' = "raised" /\ UNCHANGED r_fixation_data
          ELSE IF IsNaN(ft.v)
          THEN r_pc' = "raised" /\ r_fixation_data' = folded(old.timestamp)
          ELSE r_pc' = "test" /\ r_fixation_data' = folded(ft.v)
    /\ r_cur' = NoLocals
    /\ UNCHANGED <<component, now, trackerVars, streamVars, valVars, auxVars, r_running, heap,
                   r_buffers, r_hist>>

\* get_data(fixation=False): hand over the three lists, start new ones
ReaderGetData ==
    /\ component = "reader"
    /\ r_hist.calls < MaxConsumerCalls
    /\ LET n == Len(heap)
       IN /\ heap' = heap \o << <<>>, <<>>, <<>> >>
          /\ r_buffers' = [times |-> n + 1, x |-> n + 2, y |-> n + 3]
          /\ r_hist' = [r_hist EXCEPT
                           !.calls = @ + 1,
                           !.handed = @ \cup { <<r_buffers.times, heap[r_buffers.times]>>,
                                               <<r_buffers.x, heap[r_buffers.x]>>,
                                               <<r_buffers.y, heap[r_buffers.y]>> }]
    /\ UNCHANGED <<component, now, trackerVars, streamVars, valVars, auxVars, r_running, r_pc, r_cur,
                   r_fixation_data>>

\* get_data(fixation=True): the clusters that have a timestamp, then clear
ReaderGetFixation ==
    /\ component = "reader"
    /\ r_hist.calls < MaxConsumerCalls
    /\ r_hist' = [r_hist EXCEPT
                     !.calls = @ + 1,
                     !.points = { <<r_fixation_data[k].x, r_fixation_data[k].y,
                                    r_fixation_data[k].count>> :
                                  k \in { j \in DOMAIN r_fixation_data :
                                            r_fixation_data[j].timestamp # None } }]
    /\ r_fixation_data' = <<>>
    /\ UNCHANGED <<component, now, trackerVars, streamVars, valVars, auxVars, r_running, r_pc, r_cur,
                   heap, r_buffers>>

\* clear_data()
ReaderClear ==
    /\ component = "reader"
    /\ r_hist.calls < MaxConsumerCalls
    /\ LET n == Len(heap)
       IN /\ heap' = heap \o << <<>>, <<>>, <<>> >>
          /\ r_buffers' = [times |-> n + 1, x |-> n + 2, y |-> n + 3]
    /\ r_fixation_data' = <<>>
    /\ r_hist' = [r_hist EXCEPT !.calls = @ + 1]
    /\ UNCHANGED <<component, now, trackerVars, streamVars, valVars, auxVars, r_running, r_pc, r_cur>>

\* GazeReader.stop()
ReaderStop ==
    /\ component = "reader"
    /\ r_running' = FALSE
    /\ r_hist' = [r_hist EXCEPT !.stopped = TRUE]
    /\ UNCHANGED <<component, now, trackerVars, streamVars, valVars, auxVars, r_pc, r_cur, heap,
                   r_buffers, r_fixation_data>>

\* ------------------------------------------------- validation analysis
\* pyETA.components.validate: get_statistics(gaze_file, validate_file)
MaxGaze == 2           \* records in a gaze file
MaxTargets == 2        \* targets in a validation file
DWELL_SECONDS == 2     \* timedelta(seconds=2)

GazeTimes == {1000, 2000, 4500}      \* timestamps of gaze records, in ticks
TargetTimes == {0, 2000, 6000}       \* display timestamps of targets

\* "screen_size" of the gaze file (the screen) and of the validation file
\* (the window), in pixels
ScreenSize == <<2000, 1000>>
WindowSize == <<1000, 500>>

\* "screen_position" of a target, in pixels of the window
TargetPositions == {<<400, 200>>, <<600, 300>>}

\* a record of the gaze log (relative coordinates scaled by VS); a record
\* without a "timestamp" key has has_timestamp FALSE
GazeRecords ==
    [timestamp : GazeTimes, has_timestamp : {TRUE},
     left : {<<400, 400>>, <<NaN, NaN>>},
     right : {<<400, 400>>, <<600, 600>>, <<800, 800>>, <<NaN, NaN>>}]
    \cup {[timestamp |-> NaN, has_timestamp |-> FALSE,
           left |-> <<400, 400>>, right |-> <<600, 600>>]}

SeqsUpTo(S, n) == UNION { [1..k -> S] : k \in 0..n }

\* the "data" list of a gaze file: records in the order they were logged
GazeLists ==
    { q \in SeqsUpTo(GazeRecords, MaxGaze) :
        \A i \in 1..Len(q), j \in 1..Len(q) :
            (i < j /\ q[i].has_timestamp /\ q[j].has_timestamp)
            => q[i].timestamp <= q[j].timestamp }

\* the "data" list of a validation file: targets in display order
TargetLists ==
    { q \in SeqsUpTo([timestamp : TargetTimes, screen_position : TargetPositions],
                     MaxTargets) :
        \A i \in 1..Len(q), j \in 1..Len(q) : i < j => q[i].timestamp < q[j].timestamp }

\* what open() + json.load() meet: a complete file, a truncated one, or one
\* lacking the "data" or the "screen_size" key
FileKinds == {"ok", "truncated", "no_data", "no_screen_size"}

GazeFiles ==
    { [kind |-> "ok", data |-> d] : d \in GazeLists }
    \cup { [kind |-> k, data |-> <<>>] : k \in FileKinds \ {"ok"} }

ValidateFiles ==
    { [kind |-> "ok", data |-> d] : d \in TargetLists }
    \cup { [kind |-> k, data |-> <<>>] : k \in FileKinds \ {"ok"} }

\* no validation in progress
IdleVal ==
    /\ v_pc = "idle"
    /\ v_gaze_file = [kind |-> "ok", data |-> <<>>]
    /\ v_validate_file = [kind |-> "ok", data |-> <<>>]
    /\ v_gaze = <<>>
    /\ v_validate = <<>>
    /\ v_groups = <<>>
    /\ v_result = <<>>
    /\ v_error = "none"

\* ------------------------------------------------------ specifications
\* ============================ the Tracker's constructor and its outlet
\* pyETA.components.track.Tracker, EyeTrackerAnalyzer.components.track.Tracker
\* and EyeTrackerAnalyzer.components.gaze.Tobii
MaxPushes == 2         \* gaze callbacks delivered to the constructed tracker

PushElapsed == 1000    \* clock ticks between two of these callbacks

DefaultThreshold == 500     \* velocity_threshold=0.5, scaled by VS

Versions == {"pyETA", "EyeTrackerAnalyzer", "Tobii"}

\* width and height returned by get_current_screen_size()
ScreenSizes == {<<1920, 1080>>, <<0, 1080>>}

\* the constructor's flags, the number of eye trackers the host finds and
\* the screen size it reports; gaze.Tobii has none of the flags
OutArgs ==
    { a \in [version : Versions, use_mock : BOOLEAN, devices : 0..1,
             screen : ScreenSizes, fixation : BOOLEAN, screen_nans : BOOLEAN,
             push_stream : BOOLEAN] :
        a.version = "Tobii"
        => (~a.use_mock /\ ~a.fixation /\ a.screen_nans /\ ~a.push_stream) }

\* gaze_data dictionaries: a gaze point is <<x, y>>, <<NaN, NaN>> for an eye
\* that was not detected, <<>> when the key is missing (None); a pupil
\* diameter is a number, NaN when invalid, None when the key is missing
OutSamples ==
    [left : {<<>>, <<NaN, NaN>>, <<400, 400>>},
     right : {<<NaN, NaN>>, <<600, 600>>},
     left_pupil : {None, NaN, 3000},
     right_pupil : {3000}]

NoInput == [left |-> <<>>, right |-> <<>>, left_pupil |-> None, right_pupil |-> None]

NoFilters == <<>>

\* no tracker under construction
IdleOut ==
    /\ o_pc = "idle"
    /\ o_args = [version |-> "pyETA", use_mock |-> FALSE, devices |-> 0,
                 screen |-> <<1920, 1080>>, fixation |-> FALSE,
                 screen_nans |-> TRUE, push_stream |-> FALSE]
    /\ o_outlet = None
    /\ o_subscribed = FALSE
    /\ o_filter = NoFilters
    /\ o_fixation = [e \in Eyes |-> FixationTuple]
    /\ o_in = NoInput
    /\ o_pushed = <<>>
    /\ o_count = 0

\* no filter under test
IdleFilt ==
    /\ f_mode = "idle"
    /\ f_params = TrackerParams
    /\ f_filter = NewFilter(0)
    /\ f_raw = <<>>
    /\ f_out = <<>>

\* no validation window
IdleWin ==
    /\ w_pc = "idle"
    /\ w_timer = None
    /\ w_positions = 0
    /\ w_collected = <<>>
    /\ w_track = "idle"
    /\ w_wake = None
    /\ w_end_time = None
    /\ w_span = <<None, None>>

IdleAux == IdleOut /\ IdleFilt /\ IdleWin


vars == <<component, now, trackerVars, streamVars, readerVars, valVars, auxVars>>

\* ---- the classifier: a subscribed Tracker receiving gaze samples
InitFix ==
    /\ component = "tracker"
    /\ InitTracker
    /\ config.duration = None
    /\ InitStream
    /\ InitReader
    /\ IdleVal
    /\ IdleAux

NextFix ==
    \/ TrackStart
    \/ GazeCallback

SpecFix == InitFix /\ [][NextFix]_vars

\* ---- the sessions: a behaviour exercises one of the three objects, which
\* share no state: a Tracker run by a TrackerThread, a StreamThread, or a
\* GazeReader
SessionSamples == { [left |-> <<0, 0>>, right |-> <<0, 0>>],
                    [left |-> <<500, 500>>, right |-> <<>>] }

SessionElapsed == {0, 1000}

SessionCallback == Deliver(SessionSamples, SessionElapsed)

Init ==
    /\ component \in {"tracker", "stream", "reader"}
    /\ InitTracker
    /\ config.velocity_threshold = 500
    /\ now = 0
    /\ component # "tracker" =>
          config = [fixation |-> TRUE, velocity_threshold |-> 500,
                    save_data |-> TRUE, duration |-> None]
    /\ InitStream
    /\ InitReader
    /\ IdleVal
    /\ IdleAux

Next ==
    \/ SessionCallback
    \/ TrackStart
    \/ TrackCheck
    \/ TrackSleep
    \/ TrackFinally
    \/ ThreadRunFinally
    \/ ThreadStop
    \/ StreamStart
    \/ StreamRunBegin
    \/ StreamTest
    \/ StreamPull
    \/ StreamProcess
    \/ StreamStop
    \/ StreamStopReturn
    \/ ReaderBegin
    \/ ReaderTest
    \/ ReaderPull
    \/ ReaderLoad
    \/ ReaderAppend
    \/ ReaderFixation
    \/ ReaderGetData
    \/ ReaderGetFixation
    \/ ReaderClear
    \/ ReaderStop

Spec == Init /\ [][Next]_vars

\* the threads that run start_tracking and the ingestion loops are scheduled
\* again and again
FairSpec ==
    /\ Spec
    /\ WF_vars(TrackStart)
    /\ WF_vars(TrackCheck)
    /\ WF_vars(TrackSleep)
    /\ WF_vars(TrackFinally)
    /\ WF_vars(ThreadRunFinally)

\* ====================================================== the classifier
RECURSIVE SumSeq(_)
SumSeq(q) == IF q = <<>> THEN 0 ELSE q[1] + SumSeq(Tail(q))

\* this step is a callback that ran _update_fixation_data for eye e to its end
Processed(e) == cbCount' = cbCount + 1 /\ lastCb'[e] = "updated"

Le(v, thr) == ~IsNaN(v) /\ v <= thr
Gt(v, thr) == ~IsNaN(v) /\ v > thr

\* C1: on every sample of a run of samples with velocity <= threshold and
\* increasing timestamps the eye is fixated, its duration grows strictly and
\* equals the sum of the elapsed times of the run so far (starting from 0 when
\* the run is entered from a non-fixated state)
C1_DurationAccumulates ==
    [][\A e \in Eyes :
          (Processed(e) /\ Le(fixation'[e].velocity, config.velocity_threshold)
             /\ fixation'[e].elapsed_time > 0)
          => /\ fixation'[e].is_fixated
             /\ fixation'[e].duration = SumSeq(runElapsed'[e])
             /\ fixation'[e].duration > fixation[e].duration
             /\ (~fixation[e].is_fixated
                   => fixation'[e].duration = fixation'[e].elapsed_time)]_vars

\* a run of two fixated samples entered from a saccade sample
C1_Witness ==
    \E e \in Eyes :
        /\ Len(gaze_data) = 3
        /\ ~gaze_data[1][e].fixated
        /\ gaze_data[2][e].fixated
        /\ gaze_data[3][e].fixated
        /\ fixation[e].duration = SumSeq(runElapsed[e])
        /\ Len(runElapsed[e]) = 2

\* C2: an eye that is not fixated has duration 0, in every reachable state
C2_NotFixatedZero ==
    \A e \in Eyes : ~fixation[e].is_fixated => fixation[e].duration = 0

\* a saccade sample right after a fixated sample with a positive duration
C2_Witness ==
    \E e \in Eyes, i \in 1..Len(gaze_data) :
        /\ i + 1 = Len(gaze_data)
        /\ gaze_data[i][e].fixated
        /\ gaze_data[i][e].fixation_elapsed > 0
        /\ ~gaze_data[i + 1][e].fixated
        /\ ~fixation[e].is_fixated
        /\ fixation[e].duration = 0

C4_OnsetOnlyOnFirstFixated ==
    [][\A e \in Eyes :
          Processed(e)
          => /\ (fixation'[e].timestamp # fixation[e].timestamp
                   => fixation'[e].is_fixated /\ ~fixation[e].is_fixated)
             /\ (fixation'[e].is_fixated /\ ~fixation[e].is_fixated
                   => fixation'[e].timestamp = now')]_vars

\* what the code does hold: the timestamp is unchanged by a fixated sample
C4_HeldWhileFixated ==
    [][\A e \in Eyes :
          (Processed(e) /\ fixation'[e].is_fixated)
          => fixation'[e].timestamp = fixation[e].timestamp]_vars

\* a fixation in progress whose onset timestamp was never set
C4_Witness ==
    \E e \in Eyes :
        /\ lastCb[e] = "updated"
        /\ fixation[e].is_fixated
        /\ fixation[e].duration > 0
        /\ IsNaN(fixation[e].timestamp)

\* the last m entries of the ingestion history, projected on field f
RecentField(f) ==
    LET n == Len(s_hist.ingested)
        m == Min2(n, BUFFER_SIZE)
    IN [i \in 1..m |-> s_hist.ingested[n - m + i][f]]

\* C5: as long as stop() has not cleared them, after n ingested samples the
\* live buffers gaze_times, gaze_x and gaze_y of StreamThread each hold
\* exactly the min(n, BUFFER_SIZE) most recent entries in arrival order
C5_BuffersHoldMostRecent ==
    (component = "stream" /\ ~s_hist.stopped)
    => /\ gaze_times = RecentField(1)
       /\ gaze_x = RecentField(2)
       /\ gaze_y = RecentField(3)

\* more samples than the capacity were ingested and the oldest one, which
\* differs from what the buffers now hold first, was evicted
C5_Witness ==
    /\ component = "stream"
    /\ ~s_hist.stopped
    /\ Len(s_hist.ingested) > BUFFER_SIZE
    /\ Len(gaze_x) = BUFFER_SIZE
    /\ gaze_x[1] # s_hist.ingested[1][2]
    /\ gaze_x = RecentField(2)

\* C6 as stated: a series handed to the consumer is never changed by later
\* ingestion: every list returned by get_data still has the content it had
\* when it was returned (the lists emitted by run are copies by construction:
\* s_emitted holds values, get_data hands out the list objects themselves)
C6_SnapshotsNeverChange ==
    \A h \in r_hist.handed : heap[h[1]] = h[2]

\* a list returned by get_data that grew after it was returned
C6_Witness ==
    /\ component = "reader"
    /\ \E h \in r_hist.handed : Len(heap[h[1]]) > Len(h[2])

\* C7: the loops of StreamThread.run and GazeReader.read_stream pull a sample
\* only right after a loop test that saw the flag set to run, and once a test
\* has seen the stop no sample is pulled or processed: ingestion changes no
\* buffer and no cluster any more (stop and the consumer may still clear them)
C7_NoIngestionAfterStopObserved ==
    [][/\ (s_pc' = "pull" /\ s_pc # "pull") => (s_pc = "test" /\ s_running)
       /\ (r_pc' = "pull" /\ r_pc # "pull") => (r_pc = "test" /\ r_running)
       /\ s_hist.observedStop
          => /\ s_pc' = "exited"
             /\ s_hist'.pulled = s_hist.pulled
             /\ s_hist'.ingested = s_hist.ingested
             /\ s_hist'.errors = s_hist.errors
             /\ gaze_times' \in {gaze_times, <<>>}
             /\ gaze_x' \in {gaze_x, <<>>}
             /\ gaze_y' \in {gaze_y, <<>>}
             /\ s_fixation_data' \in {s_fixation_data, <<>>}
       /\ r_hist.observedStop
          => /\ r_pc' = "exited"
             /\ r_hist'.pulled = r_hist.pulled
             /\ r_hist'.ingested = r_hist.ingested
             /\ \A id \in 1..Len(heap) : heap'[id] = heap[id]
             /\ r_fixation_data' \in {r_fixation_data, <<>>}]_vars

\* a run() that left its loop on the flag while samples were still coming,
\* after it had ingested at least one
C7_Witness ==
    /\ component = "stream"
    /\ s_hist.observedStop
    /\ s_pc = "exited"
    /\ Len(s_hist.ingested) > 0
    /\ s_hist.pulled < MaxSamples

\* start_tracking has left its loop
TrackingEnded == trackPc \in {"finally", "returned", "finished"}

\* C8 as stated: once TrackerThread.stop() was called while start_tracking is
\* in its loop, start_tracking eventually leaves the loop, for a fixed
\* duration and for duration = None alike
C8_StopEndsCapture ==
    (stopCalled /\ trackPc \in {"check", "sleep"}) ~> TrackingEnded

\* what holds: a session with a fixed duration leaves the loop
C8_FixedDurationEnds ==
    (config.duration # None /\ trackPc \in {"check", "sleep"}) ~> TrackingEnded

\* an open-ended session still in its loop long after stop() was called,
\* the handler unsubscribed
C8_Witness ==
    /\ component = "tracker"
    /\ config.duration = None
    /\ stopCalled
    /\ ~callbacks
    /\ trackPc = "check"
    /\ now = MaxTime

\* C9 as stated: a second stop right after a first one that returned changes
\* nothing: for StreamThread (running, position of run, buffers, clusters),
\* for GazeReader (running stays false) and for Tracker (the subscription)
C9_StopIdempotent ==
    [][/\ (s_stopPc = "idle" /\ s_stopPc' = "wait" /\ s_hist.returnedAt = s_pc)
          => StreamState' = StreamState
       /\ r_hist.stopped => (~r_running /\ ~r_running')
       /\ \A sub \in BOOLEAN : stop_tracking(stop_tracking(sub)) = stop_tracking(sub)]_vars

\* stop() has returned, run() has ended, and the buffers stop() cleared hold
\* a sample again
C9_Witness ==
    /\ component = "stream"
    /\ s_hist.returnedAt = "exited"
    /\ s_pc = "exited"
    /\ s_stopPc = "idle"
    /\ gaze_times # <<>>

\* C10 as stated: no exception leaves _collect_gaze_data or read_stream, and
\* a sample that makes StreamThread.run log an error leaves the buffers and
\* the clusters as they were
C10_MalformedSampleSkipped ==
    [][/\ cbRaised' = cbRaised
       /\ r_pc' # "raised"
       /\ s_hist'.errors # s_hist.errors
          => /\ gaze_times' = gaze_times
             /\ gaze_x' = gaze_x
             /\ gaze_y' = gaze_y
             /\ s_fixation_data' = s_fixation_data]_vars

\* a callback that raised after it had updated the left eye
C10_Witness ==
    /\ component = "tracker"
    /\ cbRaised > 0
    /\ lastCb = [left_eye |-> "updated", right_eye |-> "raised"]

\* ================================================== the persisted log
\* C11 as stated: in save mode every sample delivered to _collect_gaze_data
\* is appended to the log exactly once and in arrival order, nothing else
\* changes the log, and the file is written once, after the handler was
\* unsubscribed, with exactly the records appended so far and none after it
C11_LogAppendOnlyFlushed ==
    [][component = "tracker"
       => /\ cbCount' = cbCount + 1
             => /\ Len(gaze_data') = Len(gaze_data) + 1
                /\ SubSeq(gaze_data', 1, Len(gaze_data)) = gaze_data
                /\ gaze_data'[Len(gaze_data')].timestamp = now'
          /\ cbCount' = cbCount => gaze_data' = gaze_data
          /\ saved' # saved
             => /\ saved = <<>>
                /\ saved' = <<gaze_data>>
                /\ ~callbacks
          /\ saved # <<>> => gaze_data' = gaze_data]_vars

\* what the code does hold: the log only grows by one record at its end, and
\* the file is written once, after the unsubscription, with the whole log
C11_FlushedOnceAfterUnsubscribe ==
    [][component = "tracker"
       => /\ \/ gaze_data' = gaze_data
             \/ /\ cbCount' = cbCount + 1
                /\ Len(gaze_data') = Len(gaze_data) + 1
                /\ SubSeq(gaze_data', 1, Len(gaze_data)) = gaze_data
          /\ saved' # saved
             => /\ saved = <<>>
                /\ saved' = <<gaze_data>>
                /\ ~callbacks
          /\ saved # <<>> => gaze_data' = gaze_data]_vars

\* a written file that lacks a sample the handler was given
C11_Witness ==
    /\ component = "tracker"
    /\ saved # <<>>
    /\ Len(saved[1]) > 0
    /\ cbCount > Len(saved[1])


\* ====================================================== the filters
\* the two filter channels of an eye
EyeChannels(e) ==
    IF e = "left_eye" THEN {"left_eye_x", "left_eye_y"} ELSE {"right_eye_x", "right_eye_y"}

\* this step is a gaze callback of a Tracker with fixation enabled
FixationCallback == component = "tracker" /\ cbCount' = cbCount + 1 /\ config.fixation

\* C12 as stated: with non-decreasing host timestamps no filter invocation
\* has a zero (or negative) elapsed time, the first one after the filters'
\* creation included, and an eye's filters leave a callback with a
\* previous_time strictly greater than before
C12_PreviousTimeStrictlyIncreases ==
    [][FixationCallback
       => \A e \in Eyes :
             /\ lastCb'[e] # "zero_elapsed"
             /\ lastCb'[e] = "updated"
                => \A c \in EyeChannels(e) :
                      /\ one_euro_filter'[c].previous_time = now'
                      /\ one_euro_filter'[c].previous_time
                            > one_euro_filter[c].previous_time]_vars

\* what the code does hold: an invocation that completes moves previous_time
\* strictly forward, and no previous_time ever moves backward
C12_IncreasesWhenCompleted ==
    [][/\ \A c \in Channels :
             one_euro_filter'[c].previous_time >= one_euro_filter[c].previous_time
       /\ FixationCallback
          => \A e \in Eyes :
                lastCb'[e] = "updated"
                => \A c \in EyeChannels(e) :
                      /\ one_euro_filter'[c].previous_time = now'
                      /\ one_euro_filter'[c].previous_time
                            > one_euro_filter[c].previous_time]_vars

\* a callback whose timestamp equals a filter's previous_time: the filter
\* raised, its previous_time did not move
C12_Witness ==
    /\ component = "tracker"
    /\ \E e \in Eyes :
          /\ lastCb[e] = "zero_elapsed"
          /\ \E c \in EyeChannels(e) : one_euro_filter[c].previous_time = now


\* no NaN coordinate has reached the filters of eye e
CleanFilters(e) ==
    \A c \in EyeChannels(e) :
        /\ ~IsNaN(one_euro_filter[c].previous_value)
        /\ ~IsNaN(one_euro_filter[c].previous_derivative)

\* C13: in every reachable state the velocity of an eye that has received
\* only coordinates in [0,1] (no NaN) at non-decreasing timestamps is a
\* number >= 0
C13_VelocityNonNegative ==
    \A e \in Eyes :
        (component = "tracker" /\ CleanFilters(e))
        => (~IsNaN(fixation[e].velocity) /\ fixation[e].velocity >= 0)

\* an eye that moved: its last sample gave a positive velocity
C13_Witness ==
    \E e \in Eyes :
        /\ component = "tracker"
        /\ lastCb[e] = "updated"
        /\ CleanFilters(e)
        /\ cbCount >= 2
        /\ fixation[e].velocity > 0


\* ================================================ fixation clustering
\* the fixation fields of a 22-channel sample, per eye: fixated flag at 3 and
\* 12, fixation timestamp at 5 and 14 (0-based)
EyeFixated(q, e) == Truthy(q[IF e = "left_eye" THEN 4 ELSE 13])
EyeOnset(q, e) == q[IF e = "left_eye" THEN 6 ELSE 15]

\* a fixation of some eye continues from sample p to sample q: the eye is
\* fixated in both, with the same onset timestamp
FixationContinues(p, q) ==
    /\ Len(p) = 22
    /\ Len(q) = 22
    /\ \E e \in Eyes :
          /\ EyeFixated(p, e)
          /\ EyeFixated(q, e)
          /\ EyeOnset(p, e) = EyeOnset(q, e)

\* the cluster key run() uses for a sample
ClusterKey(q) == OrElse(q, 5, 14).v

\* this step is run() handling the fixation part of a full sample
FixationStep ==
    /\ component = "stream"
    /\ s_pc = "process"
    /\ s_pc' = "test"
    /\ Len(s_sample) = 22
    /\ s_hist'.errors = s_hist.errors

\* the clusters of fd other than key k are those of gd
SameExcept(fd, gd, k) ==
    /\ DOMAIN gd = DOMAIN fd \cup {k}
    /\ \A j \in DOMAIN fd \ {k} : gd[j] = fd[j]

\* C14 as stated: a fixated sample is folded into exactly one cluster, whose
\* count grows by one; while a fixation continues from the previous sample
\* that cluster is the one the previous sample went to; a non-fixated sample
\* creates and changes no cluster
C14_OneClusterPerFixation ==
    [][FixationStep
       => LET fixated == \E e \in Eyes : EyeFixated(s_sample, e)
              k == ClusterKey(s_sample)
              old == IF k \in DOMAIN s_fixation_data
                     THEN s_fixation_data[k].count ELSE 0
          IN /\ ~fixated => s_fixation_data' = s_fixation_data
             /\ fixated
                => /\ SameExcept(s_fixation_data, s_fixation_data', k)
                   /\ s_fixation_data'[k].count = old + 1
             /\ (fixated /\ FixationContinues(s_hist.prev, s_sample))
                => k = ClusterKey(s_hist.prev)]_vars

\* what the code does hold: the same without the continuation part; the key
\* is the left eye's timestamp when it is not 0, else the right eye's
C14_FoldedByLeftKey ==
    [][FixationStep
       => LET fixated == \E e \in Eyes : EyeFixated(s_sample, e)
              k == ClusterKey(s_sample)
              old == IF k \in DOMAIN s_fixation_data
                     THEN s_fixation_data[k].count ELSE 0
          IN /\ ~fixated => s_fixation_data' = s_fixation_data
             /\ fixated
                => /\ SameExcept(s_fixation_data, s_fixation_data', k)
                   /\ s_fixation_data'[k].count = old + 1
                   /\ k = IF Truthy(EyeOnset(s_sample, "left_eye"))
                          THEN EyeOnset(s_sample, "left_eye")
                          ELSE EyeOnset(s_sample, "right_eye")]_vars

\* two clusters of count 1 for two samples of one continuing right-eye
\* fixation
C14_Witness ==
    /\ component = "stream"
    /\ ~s_hist.stopped
    /\ Len(s_hist.ingested) = 2
    /\ s_hist.prev # NoSample
    /\ EyeFixated(s_hist.prev, "right_eye")
    /\ ~EyeFixated(s_hist.prev, "left_eye")
    /\ Cardinality(DOMAIN s_fixation_data) = 2
    /\ \A k \in DOMAIN s_fixation_data : s_fixation_data[k].count = 1
    /\ EyeOnset(s_hist.prev, "right_eye") \in DOMAIN s_fixation_data


\* ================================================== cluster eviction
\* a < b on two fixation-onset timestamps (false when either is NaN)
OnsetBefore(a, b) == ~IsNaN(a) /\ ~IsNaN(b) /\ a < b

\* this step is an iteration of run() whose periodic cleanup is due
CleanupStep ==
    /\ component = "stream"
    /\ s_pc = "pull"
    /\ s_pc' # "pull"
    /\ now' - last_cleanup >= DATA_CLEANUP_INTERVAL

\* C15 as stated: a cluster disappears only in a cleanup cycle (or when
\* stop() clears everything), never when a sample is processed; right after a
\* cleanup cycle at most FIXATION_HISTORY_LIMIT clusters are left, nothing is
\* removed when there were no more than that, and every removed cluster has a
\* smaller onset timestamp than every cluster kept
C15_CleanupEvictsOldest ==
    [][component = "stream"
       => /\ ~(DOMAIN s_fixation_data \subseteq DOMAIN s_fixation_data')
             => (CleanupStep \/ s_fixation_data' = <<>>)
          /\ CleanupStep
             => LET kept == DOMAIN s_fixation_data'
                    removed == DOMAIN s_fixation_data \ kept
                IN /\ Cardinality(kept) <= FIXATION_HISTORY_LIMIT
                   /\ kept \subseteq DOMAIN s_fixation_data
                   /\ Cardinality(kept)
                         = Min2(Cardinality(DOMAIN s_fixation_data), FIXATION_HISTORY_LIMIT)
                   /\ \A r \in removed, k \in kept : OnsetBefore(r, k)]_vars

\* what the code does hold: the same with the order sorted() gives the keys
\* str(fixation_time), in which "nan" is the greatest
C15_CleanupEvictsFirstSorted ==
    [][component = "stream"
       => /\ ~(DOMAIN s_fixation_data \subseteq DOMAIN s_fixation_data')
             => (CleanupStep \/ s_fixation_data' = <<>>)
          /\ CleanupStep
             => LET kept == DOMAIN s_fixation_data'
                    removed == DOMAIN s_fixation_data \ kept
                IN /\ Cardinality(kept) <= FIXATION_HISTORY_LIMIT
                   /\ kept \subseteq DOMAIN s_fixation_data
                   /\ Cardinality(kept)
                         = Min2(Cardinality(DOMAIN s_fixation_data), FIXATION_HISTORY_LIMIT)
                   /\ \A k \in kept : s_fixation_data'[k] = s_fixation_data[k]
                   /\ \A r \in removed, k \in kept : KeyLess(r, k)]_vars

\* after a cleanup that removed a cluster, the cluster without an onset
\* timestamp (key "nan") is still there
C15_Witness ==
    /\ component = "stream"
    /\ ~s_hist.stopped
    /\ last_cleanup > 0
    /\ s_hist.pulled > FIXATION_HISTORY_LIMIT
    /\ Cardinality(DOMAIN s_fixation_data) = FIXATION_HISTORY_LIMIT
    /\ NaN \in DOMAIN s_fixation_data


\* ============================================ the validation analysis
NaT == NaN             \* pandas' missing datetime

US_PER_TICK == 1000    \* datetime64 values are kept in microseconds here

\* pd.to_datetime(column, unit='s'): a missing value becomes NaT
to_datetime(t) == IF IsNaN(t) THEN NaT ELSE t * US_PER_TICK

\* timedelta(seconds=2)
DwellWindow == DWELL_SECONDS * TS * US_PER_TICK

\* load_data: [error, gaze, validate]; the validation file is read first,
\* then the gaze file, then the keys are looked up
load_data(validate_file, gaze_file) ==
    LET Fail(e) == [error |-> e, gaze |-> <<>>, validate |-> <<>>]
    IN IF validate_file.kind = "truncated" \/ gaze_file.kind = "truncated"
       THEN Fail("JSONDecodeError")
       ELSE IF gaze_file.kind = "no_screen_size" \/ validate_file.kind = "no_screen_size"
               \/ gaze_file.kind = "no_data" \/ validate_file.kind = "no_data"
       THEN Fail("KeyError")
       ELSE [error |-> "none",
             gaze |-> gaze_file.data,
             validate |-> [i \in 1..Len(validate_file.data) |->
                              [group |-> i - 1,
                               timestamp |-> validate_file.data[i].timestamp,
                               screen_position |->
                                   validate_file.data[i].screen_position]]]

\* convert_window_to_screen_coordinates(point)
convert_window_to_screen_coordinates(point) ==
    <<Div(point[1] * ScreenSize[1], WindowSize[1]),
      Div(point[2] * ScreenSize[2], WindowSize[2])>>

\* eta_utils.get_relative_from_actual: pixels to fractions of the screen
get_relative_from_actual(point, width, height) ==
    <<IF IsNaN(point[1]) THEN NaN ELSE Div(point[1] * VS, width),
      IF IsNaN(point[2]) THEN NaN ELSE Div(point[2] * VS, height)>>

\* eta_utils.get_actual_from_relative: fractions of the screen to pixels
get_actual_from_relative(point, width, height) ==
    <<IF IsNaN(point[1]) THEN NaN ELSE Div(point[1] * width, VS),
      IF IsNaN(point[2]) THEN NaN ELSE Div(point[2] * height, VS)>>

\* eta_utils.get_distance: the euclidean distance of two points
get_distance(p, q) ==
    IF IsNaN(p[1]) \/ IsNaN(p[2]) \/ IsNaN(q[1]) \/ IsNaN(q[2]) THEN NaN
    ELSE Sqrt((p[1] - q[1]) * (p[1] - q[1]) + (p[2] - q[2]) * (p[2] - q[2]))

\* preprocess_data: [error, gaze, validate]; df_gaze_data['timestamp'] needs
\* the column, which exists when at least one record has the key
preprocess_data(df_gaze_data, df_validate_data) ==
    IF \A i \in 1..Len(df_gaze_data) : ~df_gaze_data[i].has_timestamp
    THEN [error |-> "KeyError", gaze |-> <<>>, validate |-> <<>>]
    ELSE [error |-> "none",
          gaze |-> [i \in 1..Len(df_gaze_data) |->
                       [timestamp_0 |-> to_datetime(df_gaze_data[i].timestamp),
                        left |-> df_gaze_data[i].left,
                        right |-> df_gaze_data[i].right]],
          validate |-> [i \in 1..Len(df_validate_data) |->
                           [group |-> df_validate_data[i].group,
                            timestamp_0 |-> to_datetime(df_validate_data[i].timestamp),
                            timestamp_2 |-> to_datetime(df_validate_data[i].timestamp)
                                               + DwellWindow,
                            target_relative |->
                                get_relative_from_actual(
                                    convert_window_to_screen_coordinates(
                                        df_validate_data[i].screen_position),
                                    ScreenSize[1], ScreenSize[2])]]]

\* (timestamp_0 >= row.timestamp_0) & (timestamp_0 <= row.timestamp_2)
InWindow(s, row) ==
    ~IsNaN(s) /\ s >= row.timestamp_0 /\ s <= row.timestamp_2

\* the gaze rows of one target's window, tagged with its group
GroupOf(df_gaze_data, row) ==
    LET In(g) == InWindow(g.timestamp_0, row)
        sel == SelectSeq(df_gaze_data, In)
    IN [i \in 1..Len(sel) |->
           [group |-> row.group, timestamp_0 |-> sel[i].timestamp_0,
            left |-> sel[i].left, right |-> sel[i].right]]

\* the list `groups` of filter_and_group_data: one frame per populated target
RECURSIVE GroupFrames(_, _)
GroupFrames(df_gaze_data, rows) ==
    IF rows = <<>> THEN <<>>
    ELSE LET g == GroupOf(df_gaze_data, rows[1])
         IN (IF g = <<>> THEN <<>> ELSE <<g>>) \o GroupFrames(df_gaze_data, Tail(rows))

RECURSIVE Concat(_)
Concat(frames) == IF frames = <<>> THEN <<>> ELSE frames[1] \o Concat(Tail(frames))

\* filter_and_group_data: [error, groups]; pd.concat of an empty list raises
filter_and_group_data(df_gaze_data, df_validate_data) ==
    LET groups == GroupFrames(df_gaze_data, df_validate_data)
    IN IF groups = <<>>
       THEN [error |-> "ValueError", groups |-> <<>>]
       ELSE [error |-> "none", groups |-> Concat(groups)]

\* df_groups.join(df_validate_data[[..., "target_relative"]], on=["group"],
\* how="left"): each row gets the columns of its group's target
join(df_groups, df_validate_data) ==
    [i \in 1..Len(df_groups) |->
        LET t == CHOOSE k \in 1..Len(df_validate_data) :
                     df_validate_data[k].group = df_groups[i].group
        IN [group |-> df_groups[i].group,
            timestamp_0 |-> df_groups[i].timestamp_0,
            left |-> df_groups[i].left,
            right |-> df_groups[i].right,
            target_relative |-> df_validate_data[t].target_relative]]

\* DataFrame.dropna(): rows with a missing top-level cell go; the gaze
\* points sit inside the left_eye / right_eye dicts, which are never missing
dropna(rows) ==
    LET Full(r) == ~IsNaN(r.timestamp_0)
    IN SelectSeq(rows, Full)

\* Series.mean(): the mean of the values that are not NaN, NaN if none is
ColumnMean(q) ==
    LET Num(v) == ~IsNaN(v)
        nn == SelectSeq(q, Num)
    IN IF nn = <<>> THEN NaN ELSE Div(SumSeq(nn), Len(nn))

\* (a + b) / 2 on floats
Half(a, b) == IF IsNaN(a) \/ IsNaN(b) THEN NaN ELSE Div(a + b, 2)

\* Series.std(): the sample standard deviation (ddof = 1) of the values
\* that are not NaN, NaN when there are fewer than two
ColumnStd(q) ==
    LET Num(v) == ~IsNaN(v)
        nn == SelectSeq(q, Num)
        m == Div(SumSeq(nn), Len(nn))
    IN IF Len(nn) < 2 THEN NaN
       ELSE Sqrt(Div(SumSeq([i \in 1..Len(nn) |-> (nn[i] - m) * (nn[i] - m)]),
                     Len(nn) - 1))

\* calculate_data and calculate_statistics for the rows of one group: the
\* group id, the number of rows and the mean gaze point (relative)
calculate_statistics(df) ==
    LET col(side, k) == [i \in 1..Len(df) |-> IF side = "left" THEN df[i].left[k]
                                              ELSE df[i].right[k]]
        mean_x == Half(ColumnMean(col("left", 1)), ColumnMean(col("right", 1)))
        mean_y == Half(ColumnMean(col("left", 2)), ColumnMean(col("right", 2)))
        target == df[1].target_relative
        from(side, c) == [i \in 1..Len(df) |->
                             get_distance(IF side = "left" THEN df[i].left
                                          ELSE df[i].right, c)]
    IN [group |-> df[1].group,
        rows |-> Len(df),
        mean_x |-> mean_x,
        mean_y |-> mean_y,
        target_position |->
            get_actual_from_relative(target, ScreenSize[1], ScreenSize[2]),
        spread_target |-> Half(ColumnStd(from("left", target)),
                               ColumnStd(from("right", target))),
        mean_gaze_point |->
            get_actual_from_relative(<<mean_x, mean_y>>, ScreenSize[1], ScreenSize[2]),
        spread_mean |-> Half(ColumnStd(from("left", <<mean_x, mean_y>>)),
                             ColumnStd(from("right", <<mean_x, mean_y>>)))]

\* groupby("group").apply(calculate_statistics): one row per group present,
\* in increasing order of the group id
RECURSIVE StatisticsFrom(_, _)
StatisticsFrom(df_groups, ids) ==
    IF ids = {} THEN <<>>
    ELSE LET g == CHOOSE m \in ids : \A n \in ids : m <= n
             Is(r) == r.group = g
         IN <<calculate_statistics(SelectSeq(df_groups, Is))>>
            \o StatisticsFrom(df_groups, ids \ {g})

Statistics(df_groups) ==
    StatisticsFrom(df_groups, { df_groups[i].group : i \in 1..Len(df_groups) })

\* mutant: only the gaze table is tested
EitherEmpty_GazeOnly(df_gaze_data, df_validate_data) == df_gaze_data = <<>>

\* df_gaze_data.empty or df_validate_data.empty
EitherEmpty(df_gaze_data, df_validate_data) ==
    df_gaze_data = <<>> \/ df_validate_data = <<>>

\* get_statistics(gaze_file, validate_file) is called
InitValidate ==
    /\ v_pc = "start"
    /\ v_gaze_file \in GazeFiles
    /\ v_validate_file \in ValidateFiles
    /\ v_gaze = <<>>
    /\ v_validate = <<>>
    /\ v_groups = <<>>
    /\ v_result = <<>>
    /\ v_error = "none"

\* data = load_data(validate_file, gaze_file)
ValLoad ==
    /\ component = "validate"
    /\ v_pc = "start"
    /\ LET d == load_data(v_validate_file, v_gaze_file)
       IN /\ v_error' = d.error
          /\ v_gaze' = d.gaze
          /\ v_validate' = d.validate
          /\ v_pc' = IF d.error = "none" THEN "loaded" ELSE "raised"
    /\ UNCHANGED <<component, now, trackerVars, streamVars, readerVars, auxVars,
                   v_gaze_file, v_validate_file, v_groups, v_result>>

\* if df_gaze_data.empty or df_validate_data.empty: return pd.DataFrame();
\* else preprocess_data
ValPreprocess ==
    /\ component = "validate"
    /\ v_pc = "loaded"
    /\ IF EitherEmpty(v_gaze, v_validate)
       THEN /\ v_result' = <<>>
            /\ v_pc' = "returned"
            /\ UNCHANGED <<v_gaze, v_validate, v_error>>
       ELSE LET d == preprocess_data(v_gaze, v_validate)
            IN /\ v_error' = d.error
               /\ v_gaze' = d.gaze
               /\ v_validate' = d.validate
               /\ v_pc' = IF d.error = "none" THEN "preprocessed" ELSE "raised"
               /\ UNCHANGED v_result
    /\ UNCHANGED <<component, now, trackerVars, streamVars, readerVars, auxVars,
                   v_gaze_file, v_validate_file, v_groups>>

\* df_groups = filter_and_group_data(df_gaze_data, df_validate_data)
ValGroup ==
    /\ component = "validate"
    /\ v_pc = "preprocessed"
    /\ LET d == filter_and_group_data(v_gaze, v_validate)
       IN /\ v_error' = d.error
          /\ v_groups' = d.groups
          /\ v_pc' = IF d.error = "none" THEN "grouped" ELSE "raised"
    /\ UNCHANGED <<component, now, trackerVars, streamVars, readerVars, auxVars,
                   v_gaze_file, v_validate_file, v_gaze, v_validate, v_result>>

\* join, dropna, the two groupby().apply() and the return
ValStatistics ==
    /\ component = "validate"
    /\ v_pc = "grouped"
    /\ v_groups' = dropna(join(v_groups, v_validate))
    /\ v_result' = Statistics(dropna(join(v_groups, v_validate)))
    /\ v_pc' = "returned"
    /\ UNCHANGED <<component, now, trackerVars, streamVars, readerVars, auxVars,
                   v_gaze_file, v_validate_file, v_gaze, v_validate, v_error>>

\* ---- get_statistics on every pair of files
InitVal ==
    /\ component = "validate"
    /\ InitTracker
    /\ config = [fixation |-> TRUE, velocity_threshold |-> 500,
                 save_data |-> TRUE, duration |-> None]
    /\ now = 0
    /\ InitStream
    /\ InitReader
    /\ InitValidate
    /\ IdleAux

NextVal == ValLoad \/ ValPreprocess \/ ValGroup \/ ValStatistics

SpecVal == InitVal /\ [][NextVal]_vars


\* ------------------------------------------- claims on the validation
\* both files are complete and every gaze record has its timestamp
WellFormedFiles ==
    /\ component = "validate"
    /\ v_gaze_file.kind = "ok"
    /\ v_validate_file.kind = "ok"
    /\ \A i \in 1..Len(v_gaze_file.data) : v_gaze_file.data[i].has_timestamp

\* get_statistics has ended, by a return or by an exception
ValEnded == v_pc \in {"returned", "raised"}

\* df_groups has a row of group g with timestamp s
Attributed(s, g) ==
    \E j \in 1..Len(v_groups) : v_groups[j].group = g /\ v_groups[j].timestamp_0 = s

\* C16 as stated: a gaze sample with timestamp s is attributed to target T
\* exactly when T.timestamp <= s < T.timestamp + 2 s
C16_HalfOpenDwellWindow ==
    (component = "validate" /\ v_pc = "grouped")
    => \A i \in 1..Len(v_gaze), k \in 1..Len(v_validate) :
          Attributed(v_gaze[i].timestamp_0, v_validate[k].group)
          <=> /\ ~IsNaN(v_gaze[i].timestamp_0)
              /\ v_validate[k].timestamp_0 <= v_gaze[i].timestamp_0
              /\ v_gaze[i].timestamp_0
                    < v_validate[k].timestamp_0 + DWELL_SECONDS * TS * US_PER_TICK

\* what the code does hold: the window is closed at both ends
C16_ClosedDwellWindow ==
    (component = "validate" /\ v_pc = "grouped")
    => \A i \in 1..Len(v_gaze), k \in 1..Len(v_validate) :
          Attributed(v_gaze[i].timestamp_0, v_validate[k].group)
          <=> /\ ~IsNaN(v_gaze[i].timestamp_0)
              /\ v_validate[k].timestamp_0 <= v_gaze[i].timestamp_0
              /\ v_gaze[i].timestamp_0
                    <= v_validate[k].timestamp_0 + DWELL_SECONDS * TS * US_PER_TICK

\* a sample attributed to a target displayed exactly 2 s before it
C16_Witness ==
    /\ component = "validate"
    /\ v_pc = "grouped"
    /\ \E j \in 1..Len(v_groups), k \in 1..Len(v_validate) :
          /\ v_groups[j].group = v_validate[k].group
          /\ v_groups[j].timestamp_0 = v_validate[k].timestamp_2

\* the ids of the targets whose window (as the code takes it) holds a sample
PopulatedIds ==
    { k - 1 : k \in { n \in 1..Len(v_validate_file.data) :
                        \E i \in 1..Len(v_gaze_file.data) :
                            /\ v_gaze_file.data[i].has_timestamp
                            /\ v_validate_file.data[n].timestamp
                                  <= v_gaze_file.data[i].timestamp
                            /\ v_gaze_file.data[i].timestamp
                                  <= v_validate_file.data[n].timestamp
                                        + DWELL_SECONDS * TS } }

\* the result has one row per populated target, in increasing id order
OneRowPerPopulated ==
    /\ Len(v_result) = Cardinality(PopulatedIds)
    /\ \A i \in 1..Len(v_result) : v_result[i].group \in PopulatedIds
    /\ \A i \in 1..Len(v_result), j \in 1..Len(v_result) :
          i < j => v_result[i].group < v_result[j].group

\* C17 as stated: on well-formed files get_statistics returns a table with
\* exactly one row for each target whose window holds a sample and no row
\* for the others, in increasing group-id order
C17_OneRowPerPopulatedTarget ==
    (WellFormedFiles /\ ValEnded) => (v_pc = "returned" /\ OneRowPerPopulated)

\* what the code does hold: when it returns, the table is as stated
C17_RowsWhenReturned ==
    (WellFormedFiles /\ v_pc = "returned") => OneRowPerPopulated

\* non-empty well-formed files none of whose windows holds a sample:
\* pd.concat raised
C17_Witness ==
    /\ WellFormedFiles
    /\ v_gaze_file.data # <<>>
    /\ v_validate_file.data # <<>>
    /\ PopulatedIds = {}
    /\ v_pc = "raised"
    /\ v_error = "ValueError"

\* C18: with complete files of which the gaze recording has no samples or
\* the schedule has no targets, get_statistics raises nothing and returns
\* the empty table
C18_EmptyInputEmptyTable ==
    (/\ component = "validate"
     /\ v_gaze_file.kind = "ok"
     /\ v_validate_file.kind = "ok"
     /\ (v_gaze_file.data = <<>> \/ v_validate_file.data = <<>>))
    => /\ v_pc \in {"start", "loaded", "returned"}
       /\ v_error = "none"
       /\ v_result = <<>>

\* get_statistics returned on a schedule without targets and a recording
\* with samples
C18_Witness ==
    /\ component = "validate"
    /\ v_pc = "returned"
    /\ v_validate_file.data = <<>>
    /\ v_gaze_file.data # <<>>
    /\ v_gaze_file.kind = "ok"
    /\ v_validate_file.kind = "ok"
    /\ v_result = <<>>

\* C19 as stated: on a truncated file, a file without "data" or
\* "screen_size", or records without their fields, get_statistics ends
\* with a result, never with an exception
C19_MalformedInputNoException ==
    (component = "validate" /\ ~WellFormedFiles /\ ValEnded) => v_pc = "returned"

\* json.load raised on a truncated gaze file
C19_Witness ==
    /\ component = "validate"
    /\ v_gaze_file.kind = "truncated"
    /\ v_pc = "raised"
    /\ v_error = "JSONDecodeError"

\* the rows none of whose four eye coordinates is NaN
CompleteRows(rows) ==
    LET Complete(r) == \A k \in 1..2 : ~IsNaN(r.left[k]) /\ ~IsNaN(r.right[k])
    IN SelectSeq(rows, Complete)

\* C20 as stated: the table is the one computed from the rows without any
\* NaN eye coordinate; the other rows contribute to no group's mean
C20_ListwiseDeletion ==
    (component = "validate" /\ v_pc = "returned" /\ v_groups # <<>>)
    => v_result = Statistics(CompleteRows(v_groups))

\* a group's mean gaze point to which a record with a NaN left eye gave its
\* right eye
C20_Witness ==
    /\ component = "validate"
    /\ v_pc = "returned"
    /\ \E i \in 1..Len(v_result) :
          /\ v_result[i].rows = 2
          /\ v_result[i].mean_x = 550
    /\ \E j \in 1..Len(v_groups) : IsNaN(v_groups[j].left[1])


\* C28 as stated: when both files hold records but no gaze sample lies in
\* any target's window, get_statistics returns the empty table and raises
\* nothing
C28_NoMatchEmptyTable ==
    (/\ WellFormedFiles
     /\ v_gaze_file.data # <<>>
     /\ v_validate_file.data # <<>>
     /\ PopulatedIds = {}
     /\ ValEnded)
    => (v_pc = "returned" /\ v_result = <<>> /\ v_error = "none")

\* what the code does hold: in that case get_statistics never returns
C28_NoMatchNeverReturns ==
    (/\ WellFormedFiles
     /\ v_gaze_file.data # <<>>
     /\ v_validate_file.data # <<>>
     /\ PopulatedIds = {})
    => v_pc # "returned"

\* the grouping step found no sample for any target of a non-empty
\* schedule and left get_statistics by the exception of pd.concat
C28_Witness ==
    /\ component = "validate"
    /\ v_pc = "raised"
    /\ v_error = "ValueError"
    /\ v_groups = <<>>
    /\ Len(v_gaze) > 0
    /\ Len(v_validate) > 0
    /\ \A i \in 1..Len(v_gaze), k \in 1..Len(v_validate) :
          ~InWindow(v_gaze[i].timestamp_0, v_validate[k])

\* the display timestamps of the schedule are at least 2 s apart
TargetsTwoSecondsApart ==
    \A i \in 1..Len(v_validate_file.data), j \in 1..Len(v_validate_file.data) :
        i < j => v_validate_file.data[j].timestamp
                    >= v_validate_file.data[i].timestamp + DWELL_SECONDS * TS

\* the number of rows of df_groups that come from gaze record i
RowsOfRecord(i) ==
    Cardinality({ j \in 1..Len(v_groups) :
                    /\ v_groups[j].timestamp_0 = v_gaze[i].timestamp_0
                    /\ v_groups[j].left = v_gaze[i].left
                    /\ v_groups[j].right = v_gaze[i].right })

\* the number of records of the gaze table equal to record i
CopiesOfRecord(i) ==
    Cardinality({ n \in 1..Len(v_gaze) :
                    /\ v_gaze[n].timestamp_0 = v_gaze[i].timestamp_0
                    /\ v_gaze[n].left = v_gaze[i].left
                    /\ v_gaze[n].right = v_gaze[i].right })

\* C30 as stated: with display timestamps at least 2 s apart, no gaze
\* record is in the grouped table under two different group ids
C30_AtMostOneGroup ==
    (component = "validate" /\ v_pc = "grouped" /\ TargetsTwoSecondsApart)
    => \A i \in 1..Len(v_gaze) : RowsOfRecord(i) <= CopiesOfRecord(i)

\* what the code does hold: a record is in at most one group when the
\* display timestamps are more than 2 s apart
C30_AtMostOneGroupWhenFurtherApart ==
    (/\ component = "validate"
     /\ v_pc = "grouped"
     /\ \A i \in 1..Len(v_validate), j \in 1..Len(v_validate) :
           i < j => v_validate[j].timestamp_0 > v_validate[i].timestamp_2)
    => \A i \in 1..Len(v_gaze) : RowsOfRecord(i) <= CopiesOfRecord(i)

\* one gaze record grouped under two targets shown exactly 2 s apart
C30_Witness ==
    /\ component = "validate"
    /\ v_pc = "grouped"
    /\ TargetsTwoSecondsApart
    /\ Len(v_gaze) = 1
    /\ Len(v_groups) = 2
    /\ v_groups[1].group # v_groups[2].group
    /\ v_groups[1].timestamp_0 = v_groups[2].timestamp_0


\* every row of group g has both eyes exactly on its target
GroupOnTarget(g) ==
    \A j \in 1..Len(v_groups) :
        v_groups[j].group = g
        => /\ v_groups[j].left = v_groups[j].target_relative
           /\ v_groups[j].right = v_groups[j].target_relative

\* the number of rows of group g
GroupSize(g) == Cardinality({ j \in 1..Len(v_groups) : v_groups[j].group = g })

\* C21 as stated: the row of a group whose samples of both eyes all lie
\* exactly on the target has spread from target 0, spread from the measured
\* centre 0 and a measured position equal to the target position
C21_OnTargetZeroSpread ==
    (component = "validate" /\ v_pc = "returned")
    => \A i \in 1..Len(v_result) :
          GroupOnTarget(v_result[i].group)
          => /\ v_result[i].spread_target = 0
             /\ v_result[i].spread_mean = 0
             /\ v_result[i].mean_gaze_point = v_result[i].target_position

\* what the code does hold: the same for groups of at least two samples,
\* and the measured position equals the target for any size
C21_OnTargetZeroSpreadFromTwoSamples ==
    (component = "validate" /\ v_pc = "returned")
    => \A i \in 1..Len(v_result) :
          GroupOnTarget(v_result[i].group)
          => /\ v_result[i].mean_gaze_point = v_result[i].target_position
             /\ GroupSize(v_result[i].group) >= 2
                => /\ v_result[i].spread_target = 0
                   /\ v_result[i].spread_mean = 0
             /\ GroupSize(v_result[i].group) < 2
                => /\ IsNaN(v_result[i].spread_target)
                   /\ IsNaN(v_result[i].spread_mean)

\* a group of one sample lying on its target, whose spreads are NaN
C21_Witness ==
    /\ component = "validate"
    /\ v_pc = "returned"
    /\ \E i \in 1..Len(v_result) :
          /\ GroupOnTarget(v_result[i].group)
          /\ GroupSize(v_result[i].group) = 1
          /\ IsNaN(v_result[i].spread_target)
          /\ v_result[i].mean_gaze_point = v_result[i].target_position


\* Tracker(...) is about to be called
InitOut ==
    /\ o_pc = "new"
    /\ o_args \in OutArgs
    /\ o_outlet = None
    /\ o_subscribed = FALSE
    /\ o_filter = NoFilters
    /\ o_fixation = [e \in Eyes |-> FixationTuple]
    /\ o_in = NoInput
    /\ o_pushed = <<>>
    /\ o_count = 0

\* n_channels of the StreamInfo each Tracker declares
DeclaredChannels(version) == IF version = "pyETA" THEN 22 ELSE 10

\* the try block of Tracker.__init__: a mock is always built, a device must
\* be found otherwise
DeviceFound(a) == a.use_mock \/ a.devices > 0

\* gaze.Tobii.__init__:  if 0 in fix_screen: raise ValueError
ZeroInScreen(screen) == screen[1] = 0 \/ screen[2] = 0

\* the constructors
OutConstruct ==
    /\ component = "outlet"
    /\ o_pc = "new"
    /\ IF o_args.version = "Tobii"
       THEN /\ o_pc' = IF ZeroInScreen(o_args.screen) \/ o_args.devices = 0
                       THEN "raised" ELSE "constructed"
            /\ UNCHANGED <<o_outlet, o_filter>>
       ELSE IF ~DeviceFound(o_args)
       THEN /\ o_pc' = "raised"
            /\ UNCHANGED <<o_outlet, o_filter>>
       ELSE /\ o_pc' = "constructed"
            /\ o_outlet' = IF o_args.push_stream
                           THEN DeclaredChannels(o_args.version) ELSE None
            /\ o_filter' =
                  IF o_args.version = "pyETA"
                  THEN IF o_args.fixation
                       THEN [c \in Channels |-> NewFilter(now)] ELSE NoFilters
                  ELSE IF o_args.push_stream /\ o_args.fixation
                       THEN [c \in {"left_eye_x", "left_eye_y"} |-> NewFilter(now)]
                       ELSE NoFilters
    /\ UNCHANGED <<component, now, trackerVars, streamVars, readerVars, valVars,
                   filtVars, winVars, o_args, o_subscribed, o_fixation, o_in, o_pushed, o_count>>

\* start_tracking subscribes _collect_gaze_data
OutStart ==
    /\ component = "outlet"
    /\ o_pc = "constructed"
    /\ o_args.version # "Tobii"
    /\ ~o_subscribed
    /\ o_subscribed' = TRUE
    /\ UNCHANGED <<component, now, trackerVars, streamVars, readerVars, valVars,
                   filtVars, winVars, o_pc, o_args, o_outlet, o_filter, o_fixation, o_in, o_pushed,
                   o_count>>

\* 0 if self.screen_nans else np.nan
Screened(screen_nans) == IF screen_nans THEN 0 ELSE NaN

\* gaze_point[k] if gaze_point else 0 if self.screen_nans else np.nan
PointField(point, k, screen_nans) ==
    IF point # <<>> THEN point[k] ELSE Screened(screen_nans)

\* pupil_diameter if pupil_diameter else 0 if self.screen_nans else np.nan
PupilField(pupil, screen_nans) ==
    IF pupil # None /\ Truthy(pupil) THEN pupil ELSE Screened(screen_nans)

\* a bool stored in a float64 array
AsFloat(b) == IF b THEN 1 ELSE 0

\* the nine values pyETA's stream_data holds for one eye
EyeFields(point, pupil, f, screen_nans) ==
    <<PointField(point, 1, screen_nans), PointField(point, 2, screen_nans),
      PupilField(pupil, screen_nans),
      AsFloat(f.is_fixated), f.velocity, f.timestamp, f.duration,
      PointField(<<f.filtered_x, f.filtered_y>>, 1, screen_nans),
      PointField(<<f.filtered_x, f.filtered_y>>, 2, screen_nans)>>

\* the value of an expression, computed once
Only(S) == CHOOSE r \in S : TRUE

\* the result of an update_fixation_data that is not reached
NotCalled == [raised |-> TRUE]

\* pyETA Tracker._collect_gaze_data at clock value t:
\* [raised, filter, fixation, stream]; uL and uR are the results of the
\* two calls of update_fixation_data
CollectPyETA(a, flt, fixn, t, g) ==
  Only({
    LET Raised(f2, x2) == [raised |-> TRUE, filter |-> f2, fixation |-> x2,
                           stream |-> <<>>]
        Built(f2, x2) ==
            [raised |-> FALSE, filter |-> f2, fixation |-> x2,
             stream |-> EyeFields(g.left, g.left_pupil, x2["left_eye"], a.screen_nans)
                        \o EyeFields(g.right, g.right_pupil, x2["right_eye"],
                                     a.screen_nans)
                        \o <<a.screen[1], a.screen[2], t, t>>]
    IN IF ~a.fixation THEN Built(flt, fixn)
       ELSE IF g.left = <<>> THEN Raised(flt, fixn)
       ELSE IF uL.raised
       THEN Raised([flt EXCEPT !["left_eye_x"] = uL.fx, !["left_eye_y"] = uL.fy], fixn)
       ELSE LET fL == [flt EXCEPT !["left_eye_x"] = uL.fx, !["left_eye_y"] = uL.fy]
                xL == [fixn EXCEPT !["left_eye"] = uL.fixation]
            IN IF g.right = <<>> THEN Raised(fL, xL)
               ELSE IF uR.raised
               THEN Raised([fL EXCEPT !["right_eye_x"] = uR.fx,
                                      !["right_eye_y"] = uR.fy], xL)
               ELSE Built([fL EXCEPT !["right_eye_x"] = uR.fx,
                                     !["right_eye_y"] = uR.fy],
                          [xL EXCEPT !["right_eye"] = uR.fixation])
    : uL \in {IF a.fixation /\ g.left # <<>>
              THEN update_fixation_data(flt["left_eye_x"], flt["left_eye_y"],
                                        fixn["left_eye"], t, g.left[1], g.left[2],
                                        DefaultThreshold)
              ELSE NotCalled},
      uR \in {IF a.fixation /\ g.left # <<>> /\ g.right # <<>>
              THEN update_fixation_data(flt["right_eye_x"], flt["right_eye_y"],
                                        fixn["right_eye"], t, g.right[1], g.right[2],
                                        DefaultThreshold)
              ELSE NotCalled} })

\* EyeTrackerAnalyzer Tracker._collect_gaze_data at clock value t: the ten
\* values, and fixation_elapsed appended when fixation is set
CollectLegacy(a, flt, fixn, t, g) ==
    LET ten == <<PointField(g.left, 1, a.screen_nans), PointField(g.left, 2, a.screen_nans),
                 PupilField(g.left_pupil, a.screen_nans),
                 PointField(g.right, 1, a.screen_nans), PointField(g.right, 2, a.screen_nans),
                 PupilField(g.right_pupil, a.screen_nans),
                 a.screen[1], a.screen[2], t, t>>
        Raised(f2) == [raised |-> TRUE, filter |-> f2, fixation |-> fixn,
                       stream |-> <<>>]
    IN IF ~a.fixation
       THEN [raised |-> FALSE, filter |-> flt, fixation |-> fixn, stream |-> ten]
       ELSE IF g.left = <<>> \/ flt = NoFilters THEN Raised(flt)
       ELSE LET rx == FilterCall(flt["left_eye_x"], t, g.left[1])
                ry == FilterCall(flt["left_eye_y"], t, g.left[2])
                x == g.left[1]
                y == g.left[2]
                velocity == IF IsNaN(rx.value) \/ IsNaN(ry.value) \/ IsNaN(x) \/ IsNaN(y)
                            THEN NaN
                            ELSE Sqrt((rx.value - x) * (rx.value - x)
                                      + (ry.value - y) * (ry.value - y))
                elapsed_time == t - flt["left_eye_x"].previous_time
                is_fixated == IsFixated(velocity, DefaultThreshold)
                elapsed == IF is_fixated THEN fixn["left_eye"].duration + elapsed_time
                           ELSE 0
            IN IF rx.raised THEN Raised(flt)
               ELSE IF ry.raised THEN Raised([flt EXCEPT !["left_eye_x"] = rx.state])
               ELSE [raised |-> FALSE,
                     filter |-> [flt EXCEPT !["left_eye_x"] = rx.state,
                                            !["left_eye_y"] = ry.state],
                     fixation |-> [fixn EXCEPT !["left_eye"].duration = elapsed],
                     stream |-> Append(ten, elapsed)]

\* the eye tracker calls the subscribed _collect_gaze_data
OutCollect ==
    /\ component = "outlet"
    /\ o_subscribed
    /\ o_count < MaxPushes
    /\ now' = now + PushElapsed
    /\ o_count' = o_count + 1
    /\ \E g \in OutSamples :
       \E c \in {IF o_args.version = "pyETA"
                 THEN CollectPyETA(o_args, o_filter, o_fixation, now', g)
                 ELSE CollectLegacy(o_args, o_filter, o_fixation, now', g)} :
             /\ o_in' = g
             /\ o_filter' = c.filter
             /\ o_fixation' = c.fixation
             /\ o_pushed' = IF ~c.raised /\ o_args.push_stream THEN c.stream ELSE <<>>
    /\ UNCHANGED <<component, trackerVars, streamVars, readerVars, valVars,
                   filtVars, winVars, o_pc, o_args, o_outlet, o_subscribed>>

InitOutlet ==
    /\ component = "outlet"
    /\ InitTracker
    /\ config = [fixation |-> TRUE, velocity_threshold |-> 500,
                 save_data |-> TRUE, duration |-> None]
    /\ now = 0
    /\ InitStream
    /\ InitReader
    /\ IdleVal
    /\ InitOut
    /\ IdleFilt
    /\ IdleWin

NextOut == OutConstruct \/ OutStart \/ OutCollect

SpecOut == InitOutlet /\ [][NextOut]_vars


\* ------------------------------- claims on the constructor and the outlet
\* the positions of the gaze coordinates and pupil values in stream_data
GazeIndexes(version) ==
    IF version = "pyETA" THEN {1, 2, 3, 10, 11, 12} ELSE {1, 2, 3, 4, 5, 6}

\* the value of the last gaze_data that position i of stream_data reports:
\* None when its key was missing
InputAt(version, i) ==
    LET k == IF version = "pyETA" THEN (IF i >= 10 THEN i - 9 ELSE i)
             ELSE (IF i >= 4 THEN i - 3 ELSE i)
        right == IF version = "pyETA" THEN i >= 10 ELSE i >= 4
        point == IF right THEN o_in.right ELSE o_in.left
        pupil == IF right THEN o_in.right_pupil ELSE o_in.left_pupil
    IN IF k = 3 THEN pupil
       ELSE IF point = <<>> THEN None ELSE point[k]

\* a sample was handed to the outlet by the last callback
Pushed == component = "outlet" /\ o_pushed # <<>>

\* C22 as stated: with screen_nans true no gaze coordinate or pupil value of
\* the streamed tuple is NaN, a missing (absent or NaN) one being emitted as
\* 0; with screen_nans false a missing one is emitted as NaN
C22_ScreenNansZeroFill ==
    Pushed
    => \A i \in GazeIndexes(o_args.version) :
          LET v == InputAt(o_args.version, i)
              missing == v = None \/ IsNaN(v)
          IN /\ o_args.screen_nans => ~IsNaN(o_pushed[i])
             /\ (o_args.screen_nans /\ missing) => o_pushed[i] = 0
             /\ (~o_args.screen_nans /\ missing) => IsNaN(o_pushed[i])

\* what the code does hold: an absent value is emitted as 0 or NaN by the
\* flag, a NaN value is emitted as NaN whatever the flag
C22_ZeroFillOnlyWhenAbsent ==
    Pushed
    => \A i \in GazeIndexes(o_args.version) :
          LET v == InputAt(o_args.version, i)
          IN /\ v = None => o_pushed[i] = (IF o_args.screen_nans THEN 0 ELSE NaN)
             /\ (v # None /\ IsNaN(v)) => IsNaN(o_pushed[i])

\* a tracker built with screen_nans true pushed a NaN gaze coordinate
C22_Witness ==
    /\ Pushed
    /\ o_args.version = "pyETA"
    /\ o_args.screen_nans
    /\ o_in.left = <<NaN, NaN>>
    /\ IsNaN(o_pushed[1])

\* C23 as stated: every sample pushed has exactly the channel count
\* declared when the outlet was created
C23_FixedWidthTuple == Pushed => Len(o_pushed) = o_outlet

\* what the code does hold: the declared count never changes once the
\* outlet exists, and the pyETA Tracker pushes 22 values for 22 channels
C23_DeclaredCountFixed ==
    [][(component = "outlet" /\ o_outlet # None) => o_outlet' = o_outlet]_vars

C23_PyETAFixedWidth ==
    (Pushed /\ o_args.version = "pyETA") => (Len(o_pushed) = 22 /\ o_outlet = 22)

\* the EyeTrackerAnalyzer Tracker handed 11 values to its 10-channel outlet
C23_Witness ==
    /\ Pushed
    /\ o_args.version = "EyeTrackerAnalyzer"
    /\ o_args.fixation
    /\ o_outlet = 10
    /\ Len(o_pushed) = 11

\* the configuration is invalid: neither a device nor a mock, or a screen
\* of zero area
InvalidConfiguration(a) == ~DeviceFound(a) \/ ZeroInScreen(a.screen)

\* C24 as stated: constructing with an invalid configuration raises and no
\* session is started: no handler subscribed, no outlet created
C24_InvalidConfigurationFatal ==
    (component = "outlet" /\ o_pc # "new" /\ InvalidConfiguration(o_args))
    => (o_pc = "raised" /\ ~o_subscribed /\ o_outlet = None)

\* what the code does hold: without a device or mock every constructor
\* raises; only gaze.Tobii also rejects a zero-area screen
C24_NoDeviceFatal ==
    (/\ component = "outlet"
     /\ o_pc # "new"
     /\ (~DeviceFound(o_args)
         \/ (o_args.version = "Tobii" /\ InvalidConfiguration(o_args))))
    => (o_pc = "raised" /\ ~o_subscribed /\ o_outlet = None)

\* a pyETA Tracker constructed on a screen of width 0, with its outlet
\* created and its handler subscribed
C24_Witness ==
    /\ component = "outlet"
    /\ o_args.version = "pyETA"
    /\ ZeroInScreen(o_args.screen)
    /\ o_pc = "constructed"
    /\ o_outlet = 22
    /\ o_subscribed


\* ================================================ OneEuroFilter on its own
\* tests/test_oneeurofilter.py and components/utils.py
MaxSine == 5           \* samples of the noisy sinusoid after the first
MaxConst == 12         \* calls with the constant input

SAMPLE_STEP == 100     \* timedelta(seconds=i * 0.1), in ticks
NOISE == 100           \* noise_amplitude=0.1, scaled by VS
HALF_STEP == 159       \* a gap for which smoothing_factor is 1/2 at cutoff 1.0

\* math.sin(2 * math.pi * frequency * i * 0.1), scaled by VS
SineTable == <<0, 588, 951, 951, 588, 0, 0 - 588, 0 - 951, 0 - 951, 0 - 588>>

SineAt(i) == SineTable[(i % 10) + 1]

\* noise_amplitude * (2 * random.random() - 1): three of its values
Noises == {0 - NOISE, 0, NOISE}

\* the defaults of OneEuroFilter.__init__ and the Tracker's parameters
FilterParams ==
    { [min_cutoff |-> 1000, beta_num |-> 0, beta_den |-> 10], TrackerParams }

\* the constant inputs, the initial values and the gaps between two calls
ConstValues == {0, 333, 1000}
InitialValues == {0, 335, 1000}
ConstGaps == {SAMPLE_STEP, HALF_STEP}

\* OneEuroFilter(initial_time, initial_value)
OneEuroFilter(initial_time, initial_value) ==
    [previous_value |-> initial_value, previous_derivative |-> 0,
     previous_time |-> initial_time]

\* one_euro_filter = OneEuroFilter(synthetic_data[0][0], synthetic_data[0][1]),
\* or a filter with any initial value about to be fed a constant
InitFilt ==
    /\ f_mode \in {"sine", "const"}
    /\ f_params \in FilterParams
    /\ IF f_mode = "sine"
       THEN \E n \in Noises :
               /\ f_raw = <<SineAt(0) + n>>
               /\ f_out = f_raw
       ELSE /\ f_params.beta_num = 0
            /\ f_raw \in {<<v>> : v \in ConstValues}
            /\ f_out \in {<<x>> : x \in InitialValues}
    /\ f_filter = OneEuroFilter(0, f_out[1])

\* filtered_value = one_euro_filter(t, value) with the next sample of
\* generate_synthetic_data
FeedSine ==
    /\ component = "filter"
    /\ f_mode = "sine"
    /\ Len(f_raw) <= MaxSine
    /\ \E n \in Noises :
          LET value == SineAt(Len(f_raw)) + n
              c == OneEuroCall(f_filter, now + SAMPLE_STEP, value, f_params)
          IN /\ f_raw' = Append(f_raw, value)
             /\ f_out' = Append(f_out, c.value)
             /\ f_filter' = c.state
    /\ now' = now + SAMPLE_STEP
    /\ UNCHANGED <<component, trackerVars, streamVars, readerVars, valVars, outVars,
                   winVars, f_mode, f_params>>

\* one_euro_filter(t, v) with the constant v at a later timestamp
FeedConst ==
    /\ component = "filter"
    /\ f_mode = "const"
    /\ Len(f_raw) <= MaxConst
    /\ \E gap \in ConstGaps :
          LET c == OneEuroCall(f_filter, now + gap, f_raw[1], f_params)
          IN /\ f_raw' = Append(f_raw, f_raw[1])
             /\ f_out' = Append(f_out, c.value)
             /\ f_filter' = c.state
             /\ now' = now + gap
    /\ UNCHANGED <<component, trackerVars, streamVars, readerVars, valVars, outVars,
                   winVars, f_mode, f_params>>

InitFilter ==
    /\ component = "filter"
    /\ InitTracker
    /\ config = [fixation |-> TRUE, velocity_threshold |-> 500,
                 save_data |-> TRUE, duration |-> None]
    /\ now = 0
    /\ InitStream
    /\ InitReader
    /\ IdleVal
    /\ IdleOut
    /\ IdleWin
    /\ InitFilt

NextFilter == FeedSine \/ FeedConst

SpecFilter == InitFilter /\ [][NextFilter]_vars

\* ------------------------------------------------- claims on the filter
\* sum(abs(q[i+1] - q[i]))
RECURSIVE SumAbsDiff(_)
SumAbsDiff(q) ==
    IF Len(q) < 2 THEN 0 ELSE Abs(q[2] - q[1]) + SumAbsDiff(Tail(q))

\* C25: once the noisy sinusoid has been fed (its first sample being the
\* filter's initial value), the sum of the absolute successive differences
\* of the filtered values is strictly less than that of the raw values
C25_FilteredSmoother ==
    (component = "filter" /\ f_mode = "sine" /\ Len(f_raw) >= 2)
    => SumAbsDiff(f_out) < SumAbsDiff(f_raw)

\* the whole noisy sinusoid was fed and the filtered values vary less
C25_Witness ==
    /\ component = "filter"
    /\ f_mode = "sine"
    /\ Len(f_raw) = MaxSine + 1
    /\ SumAbsDiff(f_raw) > 1000
    /\ SumAbsDiff(f_out) > 0
    /\ SumAbsDiff(f_out) < SumAbsDiff(f_raw)


\* the small epsilon: 0.01
EPSILON == VS \div 100

\* |output - v| after the last call (the initial value before the first)
Distance(out, raw) == Abs(out[Len(out)] - raw[1])

\* a call with the constant input
ConstCall ==
    /\ component = "filter"
    /\ f_mode = "const"
    /\ Len(f_out') = Len(f_out) + 1

ReaderAtRest ==
    r_pc \notin {"append_times", "load_x", "append_x", "load_y", "append_y"}

\* the three internal buffers have one length
BuffersAligned ==
    /\ Len(heap[r_buffers.times]) = Len(heap[r_buffers.x])
    /\ Len(heap[r_buffers.x]) = Len(heap[r_buffers.y])

\* two handed-over lists come from the same get_data call
SameCall(p, q) == (p[1] - 1) \div 3 = (q[1] - 1) \div 3

\* C27 as stated: the three lists returned by one get_data call have equal
\* length, and the internal buffers have equal length whenever no
\* ingestion step is in progress
C27_SeriesStayAligned ==
    component = "reader"
    => /\ \A p \in r_hist.handed, q \in r_hist.handed :
             SameCall(p, q) => Len(p[2]) = Len(q[2])
       /\ ReaderAtRest => BuffersAligned

\* what the code does hold: the series are aligned as long as the consumer
\* has called neither get_data nor clear_data
C27_AlignedWithoutConsumer ==
    (component = "reader" /\ r_hist.calls = 0 /\ ReaderAtRest) => BuffersAligned

\* get_data returned a time list one longer than the x list, and the
\* internal buffers are left with an x and a y but no time
C27_Witness ==
    /\ component = "reader"
    /\ ReaderAtRest
    /\ \E p \in r_hist.handed, q \in r_hist.handed :
          SameCall(p, q) /\ Len(p[2]) = Len(q[2]) + 1
    /\ Len(heap[r_buffers.times]) = 0
    /\ Len(heap[r_buffers.x]) = 1
    /\ Len(heap[r_buffers.y]) = 1


\* ======================================= the window command's validation
\* pyETA.components.window: ValidationWindow, TrackerThread, main
GRID_ROWS == 3             \* total_grids = (3, 3)
GRID_COLS == 3
movement_duration == 1000  \* milliseconds = ticks
stay_duration == 3000
TRACK_DURATION == 35000    \* tracker_params['duration'], 35 s, in ticks

\* the delay of the first start_sequence: stay_duration*3
FirstDelay == stay_duration * 3

\* the time between TrackerThread.start() and start_tracking's first line
StartDelays == {0, 500, 1000}

\* the next time something happens: the window's timer or the tracker thread
Pending == {t \in {w_timer, w_wake} : t # None}

Due(t) == t # None /\ \A u \in Pending : t <= u

\* main: ValidationWindow() arms its first timer, tracker_thread.start()
InitWin ==
    /\ w_pc = "wait"
    /\ w_timer = FirstDelay
    /\ w_positions = GRID_ROWS * GRID_COLS
    /\ w_collected = <<>>
    /\ w_track = "started"
    /\ w_wake \in StartDelays
    /\ w_end_time = None
    /\ w_span = <<None, None>>

\* start_sequence: move to the next position, or process_data when none is
\* left
WinStartSequence ==
    /\ component = "window"
    /\ w_pc \in {"wait", "stay"}
    /\ Due(w_timer)
    /\ now' = w_timer
    /\ IF w_positions > 0
       THEN /\ w_pc' = "move"
            /\ w_timer' = w_timer + movement_duration
            /\ w_positions' = w_positions - 1
       ELSE /\ w_pc' = "done"
            /\ w_timer' = None
            /\ UNCHANGED w_positions
    /\ UNCHANGED <<component, trackerVars, streamVars, readerVars, valVars, outVars,
                   filtVars, w_collected, w_track, w_wake, w_end_time, w_span>>

\* on_animation_finished: collect_data, then stay
WinAnimationFinished ==
    /\ component = "window"
    /\ w_pc = "move"
    /\ Due(w_timer)
    /\ now' = w_timer
    /\ w_collected' = Append(w_collected, w_timer)
    /\ w_pc' = "stay"
    /\ w_timer' = w_timer + stay_duration
    /\ UNCHANGED <<component, trackerVars, streamVars, readerVars, valVars, outVars,
                   filtVars, w_positions, w_track, w_wake, w_end_time, w_span>>

\* TrackerThread.run up to the loop of start_tracking: end_time, subscribe
WinTrackStart ==
    /\ component = "window"
    /\ w_track = "started"
    /\ Due(w_wake)
    /\ now' = w_wake
    /\ w_end_time' = w_wake + TRACK_DURATION
    /\ w_span' = <<w_wake, None>>
    /\ w_track' = "loop"
    /\ UNCHANGED <<component, trackerVars, streamVars, readerVars, valVars, outVars,
                   filtVars, w_pc, w_timer, w_positions, w_collected, w_wake>>

\* one turn of start_tracking's loop: stop at end_time, else time.sleep(1)
WinTrackCheck ==
    /\ component = "window"
    /\ w_track = "loop"
    /\ Due(w_wake)
    /\ now' = w_wake
    /\ IF LoopExit(w_end_time, w_wake)
       THEN /\ w_track' = "stopped"
            /\ w_span' = <<w_span[1], w_wake>>
            /\ w_wake' = None
       ELSE /\ w_wake' = w_wake + TS
            /\ UNCHANGED <<w_track, w_span>>
    /\ UNCHANGED <<component, trackerVars, streamVars, readerVars, valVars, outVars,
                   filtVars, w_pc, w_timer, w_positions, w_collected, w_end_time>>

InitWindow ==
    /\ component = "window"
    /\ InitTracker
    /\ config = [fixation |-> TRUE, velocity_threshold |-> 500,
                 save_data |-> TRUE, duration |-> None]
    /\ now = 0
    /\ InitStream
    /\ InitReader
    /\ IdleVal
    /\ IdleOut
    /\ IdleFilt
    /\ InitWin

NextWin == WinStartSequence \/ WinAnimationFinished \/ WinTrackStart \/ WinTrackCheck

SpecWin == InitWindow /\ [][NextWin]_vars

\* ------------------------------------- claims on the window's validation
\* the recording runs during the whole dwell window of target i
Covered(i) ==
    /\ w_span[1] # None
    /\ w_span[1] <= w_collected[i]
    /\ (w_span[2] # None => w_collected[i] + DWELL_SECONDS * TS <= w_span[2])

\* C29 as stated: the recording is still running during the whole 2-second
\* dwell window of every one of the 9 targets
C29_RecordingCoversEveryTarget ==
    component = "window" => \A i \in 1..Len(w_collected) : Covered(i)

\* what the code does hold: the windows of the first six targets are
\* covered, and the recording lasts at least the duration passed
C29_RecordingCoversFirstSix ==
    component = "window"
    => /\ \A i \in 1..Len(w_collected) : i <= 6 => Covered(i)
       /\ w_span[2] # None => w_span[2] >= w_span[1] + TRACK_DURATION

\* the sequence is over, all nine targets were shown, and the tracker had
\* stopped before the eighth was displayed
C29_Witness ==
    /\ component = "window"
    /\ w_pc = "done"
    /\ Len(w_collected) = GRID_ROWS * GRID_COLS
    /\ w_track = "stopped"
    /\ w_span[2] < w_collected[8]
    /\ ~Covered(7)

====
